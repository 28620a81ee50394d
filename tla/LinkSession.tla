---------------------------- MODULE LinkSession -----------------------------
(***************************************************************************)
(* DeepSeekLinkSessionRegistry (src/server/providers/                      *)
(* deepseek-link-session.ts) as operators on its map of records: links is  *)
(* a function from session ids, numbered in the order of their creation,   *)
(* and t is the time of the call.  Secrets and owners are those of the     *)
(* session: the others' calls are refused and change nothing.              *)
(***************************************************************************)
EXTENDS Integers, FiniteSets, FiniteSetsExt

CONSTANTS
  Links,     \* session ids, numbered in the order of their creation
  Lifetime,  \* LINK_LIFETIME_MS
  MaxPending \* MAX_PENDING_LINKS

ASSUME LinkAssumption ==
  Links \subseteq Nat \ {0} /\ Lifetime \in Nat \ {0} /\ MaxPending \in Nat \ {0}

Link(status, expires) == [status |-> status, expires |-> expires, account |-> 0]

NoLink == Link("absent", 0)

Present(links) == {l \in Links : links[l].status # "absent"}

Purged(links, t) == [l \in Links |-> IF links[l].expires <= t THEN NoLink ELSE links[l]]

(* create: purge, evict the oldest when the map is full, add the next.     *)
Created(links, next, t) ==
  LET kept    == Purged(links, t)
      evicted == IF Cardinality(Present(kept)) >= MaxPending THEN {Min(Present(kept))} ELSE {}
  IN  [l \in Links |-> IF l = next THEN Link("waiting", t + Lifetime)
                       ELSE IF l \in evicted THEN NoLink ELSE kept[l]]

(* Mutant: a session that is being validated can be claimed again.         *)
ClaimKindUnlocked(link, t) ==
  CASE link.status = "absent" \/ link.expires <= t \/ link.status = "cancelled" -> "refused"
    [] link.status = "complete" -> "complete"
    [] OTHER                    -> "ready"

(* What claim answers; "ready" also marks the session as validating.       *)
ClaimKind(link, t) ==
  CASE link.status = "absent" \/ link.expires <= t \/ link.status = "cancelled" -> "refused"
    [] link.status = "complete"   -> "complete"
    [] link.status = "validating" -> "busy"
    [] OTHER                      -> "ready"

Claimed(link) == [link EXCEPT !.status = "validating"]

Failed(link) == IF link.status = "validating" THEN [link EXCEPT !.status = "waiting"] ELSE link

Completed(link, a) ==
  IF link.status = "validating" THEN [link EXCEPT !.status = "complete", !.account = a] ELSE link

Cancellable(link) == link.status \notin {"absent", "complete"}

Cancelled(link) == [link EXCEPT !.status = "cancelled"]

(* read and toView.                                                        *)
ViewStatus(link, t) ==
  IF link.status # "absent" /\ link.expires <= t THEN "expired" ELSE link.status
=============================================================================
