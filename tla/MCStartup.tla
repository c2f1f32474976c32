------------------------------ MODULE MCStartup ------------------------------
(* Startup with three data directories of three, and configuration files     *)
(* that name two trackers in all the ways there are.                         *)
EXTENDS Startup

MCIp      == {1, 2}
MCHost    == {"a", "alias", "b", "localhost", "nowhere"}
MCResolve == [h \in MCHost |-> CASE h \in {"a", "alias"} -> 1
                                 [] h = "b"            -> 2
                                 [] h = "localhost"    -> 127
                                 [] h = "nowhere"      -> 0]

At(h, p)  == [host |-> h, port |-> p]
MCValues  == {At("a", 5), At("alias", 0), At("a", 7), At("b", 5), At("b", 3)}
MCBad     == {At("localhost", 5), At("nowhere", 5), NoColon}

\* A file: lines of other items before and behind those of tracker_server.
File(vs) ==
    <<[name |-> 3, value |-> NoColon]>>
        \o [n \in DOMAIN vs |-> [name |-> Tracker, value |-> vs[n]]]
        \o <<[name |-> 1, value |-> NoColon]>>

MCFiles ==
    {File(vs) : vs \in BoundedSeq(MCValues, 2)}
        \cup {File(vs) : vs \in [1 .. 3 -> {At("alias", 0), At("a", 7), At("b", 3)}]}
        \cup {File(<<At("b", 5), v>>) : v \in MCBad}
        \cup {File(<<At("b", 5), At("alias", 0), At("a", 7), At("b", 3)>>)}
=============================================================================
