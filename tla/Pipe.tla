-------------------------------- MODULE Pipe --------------------------------
(***************************************************************************)
(* What the proxy promises of one direction of the Helix <-> Lean pipe:    *)
(* the messages written come out in the order they were written, each      *)
(* once, none altered, none missing but those withheld on purpose.         *)
(* Messages are named by their number.                                     *)
(***************************************************************************)
EXTENDS Naturals, Sequences

VARIABLES written,    \* number of messages written
          withheld,   \* the ones the proxy keeps for itself
          got         \* the messages read, in order

Init == written = 0 /\ withheld = {} /\ got = <<>>

Write == /\ written' = written + 1
         /\ withheld' \in {withheld, withheld \cup {written + 1}}
         /\ UNCHANGED got

Read == /\ \E n \in (1 .. written) \ withheld :
             /\ \A i \in DOMAIN got : got[i] # n
             /\ \A m \in 1 .. n - 1 : m \in withheld \/ \E i \in DOMAIN got : got[i] = m
             /\ got' = Append(got, n)
        /\ UNCHANGED <<written, withheld>>

Spec == Init /\ [][Write \/ Read]_<<written, withheld, got>>
============================================================================
