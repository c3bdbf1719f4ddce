----------------------------- MODULE TskProxyMC -----------------------------
(* Values of the constants of TskProxy for TLC.  The ids are those of      *)
(* timeseries_backend_pub.h; key "x" passes no filter.                     *)
EXTENDS TskProxy, TLC

MCKeys == {"a", "b", "x"}
MCWanted == {"a", "b"}
MCResolvers == {2}
MCTransactional == {2}
DbatsOnly == {2}
DbatsOrKafka == {2, 3}

M(t, kvs, tail) == [time |-> t, kvs |-> kvs, tail |-> tail]

(* One key twice in a message, a key that is filtered out, the same keys   *)
(* under two times, and a message without any pair.  The number is that of *)
(* the bytes behind the last pair.                                         *)
WholeMessages ==
  {M(1, << <<"a", 1>> >>, 0),
   M(1, << <<"a", 0>>, <<"b", 1>> >>, 2),
   M(2, << <<"a", 1>>, <<"a", 0>> >>, 0),
   M(2, << <<"x", 1>>, <<"b", 1>> >>, 0),
   M(2, << >>, 0)}

(* The same, but for the last one, one of them with a byte more.           *)
AllMessages ==
  {IF m.tail = 2 THEN [m EXCEPT !.tail = 3] ELSE m :
     m \in WholeMessages \ {M(2, << >>, 0)}}

(* One key under two times, and another value for it under the first.      *)
FewMessages ==
  {M(1, << <<"a", 1>> >>, 0), M(1, << <<"a", 0>> >>, 0),
   M(2, << <<"a", 1>> >>, 0)}

EndlessResults == {"error", "rejected", "message"}

ShortMessages == {M(1, << <<"b", 0>> >>, 1)}

=============================================================================
