------------------------------- MODULE MCBwi --------------------------------
(* A chain of two servers; one client uses the first and lends it its       *)
(* bandwidth, another one uses the second.                                  *)
EXTENDS Bwi

CONSTANTS front, back, lender, other

MCSubserver == [s \in Servers |-> IF s = front THEN back ELSE Nobody]
MCServerOf == [c \in Clients |-> IF c = lender THEN front ELSE back]
MCStoppingIteration == [c \in Clients |-> IF c = lender THEN 1 ELSE 0]
MCNoIteration == [c \in Clients |-> 0]
MCMaxJobs == [c \in Clients |-> IF c = lender THEN 1 ELSE 0]
MCOrder == <<back, front, lender, other>>
MCShortOrder == <<back, front, lender>>

=============================================================================
