-------------------------------- MODULE HashTrail -------------------------------
(* What the audit trail of an entity promises, without calls and transactions: *)
(* a chain of hashes that only grows, each new entry naming the one before it. *)
(* With MayFork, an entry may name an older one, and one may turn out to be    *)
(* older than the latest: what is left of the promise when calls overlap.      *)
CONSTANTS
  Hash,   \* the hashes of entries
  NoHash, \* what the first entry names
  MayFork

VARIABLES
  links, \* the entries: each one's hash and the hash it names
  tip    \* the hash of the latest entry, or NoHash

trailVars == <<links, tip>>

Init == links = {} /\ tip = NoHash

Recorded == {link.hash : link \in links}

\* A new entry with hash h names p.
Extend(h, p) ==
  /\ h \in Hash \ Recorded
  /\ p = tip \/ (MayFork = TRUE /\ p \in Recorded \cup {NoHash})
  /\ links' = links \cup {[hash |-> h, prev |-> p]}
  /\ tip' = h \/ (MayFork = TRUE /\ tip' = tip /\ links # {})

Next == \E h \in Hash, p \in Hash \cup {NoHash} : Extend(h, p)

Spec == Init /\ [][Next]_trailVars

(*--------------------------------- Properties --------------------------------*)

\* Every entry but the first names an entry of the trail: nothing was removed.
Grounded == \A link \in links : link.prev \in Recorded \cup {NoHash}

\* No two entries name the same one, and none names the latest: one chain.
OneChain ==
  /\ \A a, b \in links : a.prev = b.prev => a = b
  /\ \A link \in links : link.prev # tip
===============================================================================
