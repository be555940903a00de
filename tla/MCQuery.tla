------------------------------ MODULE MCQuery ------------------------------
(***************************************************************************)
(* Small instances of Query: a slave with up to two threads and one with a *)
(* single thread, with zero to four files.                                 *)
(***************************************************************************)
EXTENDS Query, TLC

CONSTANTS s1, s2

TwoSlaves == {s1, s2}
TwoAndOne == (s1 :> 2) @@ (s2 :> 1)

\* File n can be opened and counts n flows; in file 3 the parts do not add up.
Good(n) == [opens |-> TRUE, info |-> [k \in Counters |->
                CASE k = "all" -> n [] k = "tcp" -> 1 [] k = "udp" -> n - 1
                  [] k = "icmp" -> n \div 3 [] OTHER -> 0]]
Unopenable == [opens |-> FALSE, info |-> [k \in Counters |-> 7]]

Files(x, y) == (s1 :> x) @@ (s2 :> y)

FewFiles == {Files(<<>>, <<>>), Files(<<Unopenable>>, <<Good(2)>>)}
TwoFiles == {Files(<<Good(1), Good(3)>>, <<>>)}
ThreeFiles == {Files(<<Good(1), Unopenable, Good(3)>>, <<>>)}
FourFiles == {Files(<<Good(1), Good(3)>>, <<Unopenable, Good(2)>>)}

Total == {"total"}
Stream == {"stream"}

\* All modes with the default bar, and every kind of bar in the mode in which
\* nothing else is sent.
SomeQueries ==
    [mode: {"help", "list"}, files: FewFiles \cup ThreeFiles, type: Total, dest: Stream]
    \cup [mode: {"tput"}, files: FewFiles \cup TwoFiles, type: Total, dest: Stream]
    \cup [mode: {"meta"}, files: FewFiles \cup ThreeFiles, type: {"perslave"}, dest: {"file"}]
    \cup [mode: {"meta"}, files: FourFiles, type: {"json"}, dest: {"file"}]
    \cup [mode: {"meta"}, files: FewFiles, type: {"none"}, dest: Stream]
    \cup [mode: {"meta"}, files: FewFiles, type: {"json"}, dest: {"unwritable"}]

============================================================================
