---------------------------- MODULE MCBwiDriver -----------------------------
(* Configuration files of up to three lines.                               *)
EXTENDS BwiDriver

Plain(id) == [id |-> id, own |-> {}]

Pairs == {<<Plain(a), Plain(b)>> : a, b \in ProgramIds}

MCConfigs ==
    Pairs
    \cup {<<[id |-> "CPU_HOG_CBS", own |-> {"s"}]>>,
          <<Plain("SERVER"), [id |-> "CLIENT", own |-> {"v", "x"}]>>,
          <<[id |-> "CLIENT", own |-> {"v"}], Plain("SERVER"), Plain("SERVER_CLIENT")>>,
          <<Plain("SERVER"), Plain("SERVER_CLIENT"), Plain("CLIENT")>>}

=============================================================================
