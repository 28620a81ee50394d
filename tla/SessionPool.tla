---------------------------- MODULE SessionPool -----------------------------
(***************************************************************************)
(* The DeepSeekSessionPool of                                              *)
(* src/main/proxy/adapters/deepseek-session-pool.ts for one pool key (one  *)
(* account and token), driven by the requests of deepseek.ts: each leases  *)
(* an upstream conversation, uses it and gives it back or drops it.        *)
(*                                                                         *)
(* Acquires of one key run one after another (serialize), but an acquire   *)
(* awaits upstream calls while release and invalidate, which are           *)
(* synchronous and not serialized, run in between.  Every await ends one   *)
(* action and begins another.                                              *)
(*                                                                         *)
(* Sessions are numbered in the order of their creation, which is the      *)
(* order of the entries in the pool's array.  The counter reused is not    *)
(* kept: nothing reads it but the metrics page.                            *)
(***************************************************************************)
EXTENDS Integers, Sequences, FiniteSets, FiniteSetsExt

CONSTANTS
  Requests,     \* the requests that share the key
  Ttl,          \* sessionTtlMs, in ticks
  MaxSessions,  \* bound: upstream sessions ever created
  MaxTime       \* bound: the last value of the clock

ASSUME PoolAssumption ==
  Ttl \in Nat /\ MaxSessions \in Nat /\ MaxTime \in Nat

VARIABLES
  now,          \* this.now()
  entries,      \* this.sessions.get(key): the sessions it lists
  expiresAt,    \* entry.expiresAt of every session created
  inUse,        \* the sessions whose entry.inUse is set
  created, retired, invalidated,  \* the counters of state()
  upstream,     \* what became of each session at the provider
  chain,        \* the acquires of the key in order; the head one runs
  op,           \* the running acquire's currentTime, available and expired
  pc,           \* where each request is
  media,        \* the requests that carry media files
  lease         \* the session each request was leased, 0 for none

vars == <<now, entries, expiresAt, inUse, created, retired, invalidated,
          upstream, chain, op, pc, media, lease>>

Sessions == 1..MaxSessions

(* "closing": a delete call is under way; "closed": it has returned, well  *)
(* or badly (cleanup is best effort); "abandoned": none was begun, since no*)
(* access token could be had for it.                                       *)
Gone == {"closing", "closed", "abandoned"}

Upstream == {"unborn", "open"} \cup Gone

NoOp == [time |-> 0, available |-> {}, expired |-> {}]

TypeOK ==
  /\ now \in 0..MaxTime
  /\ entries \subseteq 1..created
  /\ expiresAt \in [Sessions -> 0..(MaxTime + Ttl)]
  /\ inUse \subseteq 1..created
  /\ created \in 0..MaxSessions
  /\ retired \in Nat
  /\ invalidated \in Nat
  /\ upstream \in [Sessions -> Upstream]
  /\ chain \in Seq(Requests)
  /\ op \in [time : 0..MaxTime, available : SUBSET (1..created),
             expired : SUBSET (1..created)]
  /\ pc \in [Requests -> {"idle", "chained", "retiring", "creating", "leased",
                     "tokening", "closing"}]
  /\ media \subseteq Requests
  /\ lease \in [Requests -> 0..created]

Init ==
  /\ now = 0
  /\ entries = {} /\ inUse = {}
  /\ expiresAt = [s \in Sessions |-> 0]
  /\ created = 0 /\ retired = 0 /\ invalidated = 0
  /\ upstream = [s \in Sessions |-> "unborn"]
  /\ chain = <<>> /\ op = NoOp
  /\ pc = [r \in Requests |-> "idle"]
  /\ media = {}
  /\ lease = [r \in Requests |-> 0]

Tick ==
  /\ now < MaxTime
  /\ now' = now + 1
  /\ UNCHANGED <<entries, expiresAt, inUse, created, retired, invalidated,
                 upstream, chain, op, pc, media, lease>>

-----------------------------------------------------------------------------
(* acquire                                                                 *)

(* chatCompletion calls sessionPool.acquire, which queues behind the       *)
(* acquires of the key already under way.                                  *)
CallAcquire(r, hasMedia) ==
  /\ pc[r] = "idle"
  /\ pc' = [pc EXCEPT ![r] = "chained"]
  /\ media' = IF hasMedia THEN media \cup {r} ELSE media
  /\ chain' = Append(chain, r)
  /\ UNCHANGED <<now, entries, expiresAt, inUse, created, retired, invalidated,
                 upstream, op, lease>>

Running(r) == chain # <<>> /\ Head(chain) = r

NotMarked(s) == inUse

Marked(s) == inUse \cup {s}

(* The acquire looks for an idle entry in its own array of entries and     *)
(* leases the first, or calls create.  time is its currentTime.            *)
Choose(r, time, available) ==
  LET idle == available \ inUse
  IN  \/ /\ idle # {}
         /\ inUse' = Marked(Min(idle))
         /\ lease' = [lease EXCEPT ![r] = Min(idle)]
         /\ pc' = [pc EXCEPT ![r] = "leased"]
         /\ chain' = Tail(chain) /\ op' = NoOp
      \/ /\ idle = {}
         /\ pc' = [pc EXCEPT ![r] = "creating"]
         /\ op' = [time |-> time, available |-> available, expired |-> {}]
         /\ UNCHANGED <<inUse, lease, chain>>

(* The loop body for the first of the expired entries: count it and ask    *)
(* the provider to delete it.                                              *)
RetireFirst(r, time, available, expired, was) ==
  /\ op' = [time |-> time, available |-> available, expired |-> expired]
  /\ retired' = retired + 1
  /\ upstream' = [was EXCEPT ![Min(expired)] = "closing"]
  /\ pc' = [pc EXCEPT ![r] = "retiring"]
  /\ UNCHANGED <<inUse, lease, chain>>

(* The acquire's turn comes: it drops the expired idle entries from the    *)
(* map and keeps the array of the others.                                  *)
Begin(r) ==
  LET expired   == {s \in entries \ inUse : expiresAt[s] <= now}
      available == entries \ expired
  IN  /\ Running(r) /\ pc[r] = "chained"
      /\ entries' = available
      /\ \/ expired = {} /\ Choose(r, now, available) /\ UNCHANGED <<retired, upstream>>
         \/ expired # {} /\ RetireFirst(r, now, available, expired, upstream)
      /\ UNCHANGED <<now, expiresAt, created, invalidated, media>>

(* retire() settles; its failure is swallowed.                             *)
RetireSettles(r) ==
  LET s    == Min(op.expired)
      rest == op.expired \ {s}
      was  == [upstream EXCEPT ![s] = "closed"]
  IN  /\ Running(r) /\ pc[r] = "retiring"
      /\ \/ /\ rest = {} /\ Choose(r, op.time, op.available)
            /\ upstream' = was /\ UNCHANGED retired
         \/ rest # {} /\ RetireFirst(r, op.time, op.available, rest, was)
      /\ UNCHANGED <<now, entries, expiresAt, created, invalidated, media>>

(* A media request asks for a lifetime of zero.                            *)
Lifetime(r) == IF r \in media THEN 0 ELSE Ttl

(* The entries the new one is pushed to: the map is read again.            *)
CurrentEntries == entries

CreateSucceeds(r) ==
  LET s == created + 1
  IN  /\ Running(r) /\ pc[r] = "creating"
      /\ created < MaxSessions
      /\ created' = s
      /\ upstream' = [upstream EXCEPT ![s] = "open"]
      /\ expiresAt' = [expiresAt EXCEPT ![s] = op.time + Lifetime(r)]
      /\ inUse' = inUse \cup {s}
      /\ entries' = CurrentEntries \cup {s}
      /\ lease' = [lease EXCEPT ![r] = s]
      /\ pc' = [pc EXCEPT ![r] = "leased"]
      /\ chain' = Tail(chain) /\ op' = NoOp
      /\ UNCHANGED <<now, retired, invalidated, media>>

CreateFailsHoldingChain(r) ==
  /\ Running(r) /\ pc[r] = "creating"
  /\ pc' = [pc EXCEPT ![r] = "idle"]
  /\ UNCHANGED <<now, entries, expiresAt, inUse, created, retired, invalidated,
                 upstream, chain, op, media, lease>>

(* create() rejects (an error answer, the request's abort, the 15 s        *)
(* timeout): the request fails and the next acquire runs.                  *)
CreateFails(r) ==
  /\ Running(r) /\ pc[r] = "creating"
  /\ pc' = [pc EXCEPT ![r] = "idle"]
  /\ chain' = Tail(chain) /\ op' = NoOp
  /\ media' = media \ {r}
  /\ UNCHANGED <<now, entries, expiresAt, inUse, created, retired, invalidated,
                 upstream, lease>>

-----------------------------------------------------------------------------
(* The end of a request that holds a lease.                                *)

DropEntry(s) == entries \ {s}

(* Nothing more to do for the request.                                     *)
GoIdle(r) ==
  /\ pc' = [pc EXCEPT ![r] = "idle"]
  /\ lease' = [lease EXCEPT ![r] = 0]
  /\ media' = media \ {r}

(* The dropped session is left to delete upstream; deleteSession, and      *)
(* invalidateSession without a token, await acquireToken first.            *)
CloseUpstream(r) ==
  /\ pc' = [pc EXCEPT ![r] = "tokening"]
  /\ UNCHANGED <<upstream, lease, media>>

(* deleteSessionWithToken sends the delete.                                *)
Delete(r) ==
  /\ pc' = [pc EXCEPT ![r] = "closing"]
  /\ upstream' = [upstream EXCEPT ![lease[r]] = "closing"]
  /\ UNCHANGED <<lease, media>>

ReleaseForgettingUpstream(r) ==
  LET s == lease[r]
  IN  /\ pc[r] = "leased" /\ s \in entries
      /\ inUse' = inUse \ {s}
      /\ GoIdle(r) /\ UNCHANGED upstream
      /\ \/ expiresAt[s] > now /\ UNCHANGED <<entries, retired>>
         \/ expiresAt[s] <= now /\ entries' = DropEntry(s) /\ retired' = retired + 1
      /\ UNCHANGED <<now, expiresAt, created, invalidated, chain, op>>

(* releaseSession, after a success and after an error that leaves the      *)
(* conversation usable: the entry is idle again, or is retired when its    *)
(* time is over.                                                           *)
Release(r) ==
  LET s == lease[r]
  IN  /\ pc[r] = "leased"
      /\ \/ /\ s \notin entries
            /\ GoIdle(r) /\ UNCHANGED <<entries, inUse, retired, upstream>>
         \/ /\ s \in entries /\ expiresAt[s] > now
            /\ inUse' = inUse \ {s}
            /\ GoIdle(r) /\ UNCHANGED <<entries, retired, upstream>>
         \/ /\ s \in entries /\ expiresAt[s] <= now
            /\ inUse' = inUse \ {s}
            /\ entries' = DropEntry(s)
            /\ retired' = retired + 1
            /\ CloseUpstream(r)
      /\ UNCHANGED <<now, expiresAt, created, invalidated, chain, op>>

InvalidateNothing(r) ==
  /\ pc[r] = "leased"
  /\ GoIdle(r)
  /\ UNCHANGED <<now, entries, expiresAt, inUse, created, retired, invalidated,
                 upstream, chain, op>>

(* invalidateSession, after any other failure: the entry is dropped, its   *)
(* inUse flag left as it is.  chatCompletion hands its token on, so that   *)
(* the delete is sent at once; the forwarder's finalizeSession has none.   *)
Invalidate(r) ==
  LET s == lease[r]
  IN  /\ pc[r] = "leased"
      /\ \/ s \notin entries /\ GoIdle(r) /\ UNCHANGED <<entries, invalidated, upstream>>
         \/ /\ s \in entries
            /\ entries' = DropEntry(s)
            /\ invalidated' = invalidated + 1
            /\ Delete(r) \/ CloseUpstream(r)
      /\ UNCHANGED <<now, expiresAt, inUse, created, retired, chain, op>>

(* acquireToken answers, from the cache or after an exchange.              *)
TokenComes(r) ==
  /\ pc[r] = "tokening"
  /\ Delete(r)
  /\ UNCHANGED <<now, entries, expiresAt, inUse, created, retired, invalidated,
                 chain, op>>

(* The exchange fails and the error is swallowed: nobody deletes the       *)
(* session later.                                                          *)
TokenRefused(r) ==
  /\ pc[r] = "tokening"
  /\ upstream' = [upstream EXCEPT ![lease[r]] = "abandoned"]
  /\ GoIdle(r)
  /\ UNCHANGED <<now, entries, expiresAt, inUse, created, retired, invalidated,
                 chain, op>>

(* The upstream delete of a dropped session settles.                       *)
CloseSettles(r) ==
  /\ pc[r] = "closing"
  /\ upstream' = [upstream EXCEPT ![lease[r]] = "closed"]
  /\ GoIdle(r)
  /\ UNCHANGED <<now, entries, expiresAt, inUse, created, retired, invalidated,
                 chain, op>>

-----------------------------------------------------------------------------
AcquireStep(r) ==
  Begin(r) \/ RetireSettles(r) \/ CreateSucceeds(r) \/ CreateFails(r)

Next ==
  \/ Tick
  \/ \E r \in Requests :
       \/ \E hasMedia \in BOOLEAN : CallAcquire(r, hasMedia)
       \/ AcquireStep(r)
       \/ Release(r)
       \/ Invalidate(r)
       \/ TokenComes(r) \/ TokenRefused(r) \/ CloseSettles(r)

Spec == Init /\ [][Next]_vars

(* The upstream calls of an acquire have timeouts (15 s, 10 s) and the     *)
(* event loop runs what is ready; requests need not ever finish.           *)
FairSpec == Spec /\ \A r \in Requests : WF_vars(AcquireStep(r))

-----------------------------------------------------------------------------
(* Properties.                                                             *)

Holding(r) == pc[r] = "leased"

(* The same upstream conversation is never leased to two requests at once, *)
(* whatever releases and retirements run inside an acquire                 *)
(* (deepseek-session-pool.ts:60-64, 86; docs/providers/deepseek.md:38-39). *)
ExclusiveLease ==
  \A r, q \in Requests : Holding(r) /\ Holding(q) /\ lease[r] = lease[q] => r = q

(* The expired entries the running acquire has yet to close upstream.      *)
Uncounted ==
  IF \E r \in Requests : pc[r] = "retiring" THEN op.expired \ {Min(op.expired)} ELSE {}

(* Every listed entry marked in use belongs to a request that will give it *)
(* back; otherwise it would stay listed for ever, since only idle entries  *)
(* expire (:45-50, 69-75, 86; deepseek.ts:263-272; forwarder.ts:63-74).    *)
NoLeakedEntry ==
  \A s \in entries \cap inUse : \E r \in Requests : Holding(r) /\ lease[r] = s

(* The dropped sessions whose requests await a token to delete them with.  *)
Owed == {lease[r] : r \in {q \in Requests : pc[q] = "tokening"}}

(* A conversation that is open at the provider is one that the pool lists, *)
(* that the running acquire will close, or that a request is about to      *)
(* delete; and one that is deleted, or was given up because no token could *)
(* be had, is listed no more, so that no later acquire begins with it      *)
(* (:44-58, 73; deepseek.ts:271-300).                                      *)
NoForgottenSession ==
  \A s \in Sessions :
    /\ upstream[s] = "open" => s \in entries \cup Uncounted \cup Owed
    /\ upstream[s] \in Gone => s \notin entries

(* Every acquire is answered, by a lease or an error, even when no other   *)
(* request ever gives its lease back: a failed create does not jam the     *)
(* chain of its key (:131-147).                                            *)
AcquireAnswered ==
  \A r \in Requests : pc[r] = "chained" ~> pc[r] \in {"leased", "idle"}
=============================================================================
