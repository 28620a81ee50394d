---------------------------- MODULE LinkPairing -----------------------------
(***************************************************************************)
(* A link session between its three parties: the account panel of the      *)
(* admin console (src/web/App.tsx), which starts, polls and cancels it;    *)
(* the browser extension (tools/deepseek-session-connector), which waits   *)
(* for a login in one DeepSeek tab and sends the token; and the server.    *)
(* The server's validation is one answer here, Onboarding has its steps.   *)
(***************************************************************************)
EXTENDS LinkSession

CONSTANTS
  MaxChecks,  \* bound: runs of runSessionCheck in flight
  MaxPolls,   \* bound: polls of the console in flight
  MaxTime,    \* bound: the clock
  MaxEvents   \* bound: acts of the two users, failures of the network

ASSUME PairingAssumption ==
  {MaxChecks, MaxPolls, MaxTime, MaxEvents} \subseteq Nat

VARIABLES
  now, links, started,
  codes,     \* expiresAt in the connector code of each link
  \* the console
  panel,     \* linkSession: a link and the status last read, link 0 for null
  effect,    \* the panel the live polling effect was started for
  polls,     \* polls in flight: the effect that sent them and their answer
  reported,  \* the ref linkedReported
  cancelling, \* cancelAutomaticLink awaits its request
  told,      \* auxiliary: how often onLinked was called for each link
  abandoned, \* auxiliary: the links the console's user gave up
  givenUp,   \* auxiliary: how often the user gave one up
  \* the extension
  candidate, \* the popup: the link of the code in its field, 0 for none
  finished,  \* the popup: it has shown a complete link and hides its field
  pending,   \* pendingDeepSeekLink in the session storage, 0 for none
  shown,     \* deepSeekLinkStatus
  inFlight,  \* the tab is in checksInFlight
  checks,    \* runs of runSessionCheck
  script,    \* the content script: "stopped", "asking" or "timer"
  loggedIn,  \* the page's localStorage has a token
  \* both
  added,     \* auxiliary: the links that added an account
  events

server == <<links, started, codes, added>>
console == <<panel, effect, polls, reported, cancelling, told, abandoned, givenUp>>
extension == <<candidate, finished, pending, shown, inFlight, checks, script, loggedIn>>
vars == <<now, server, console, extension, events>>

NoPanel == [link |-> 0, status |-> "absent"]
NoCheck == [phase |-> "none", link |-> 0, by |-> "script"]

Act == events < MaxEvents /\ events' = events + 1

Final == {"complete", "cancelled", "expired"}

-----------------------------------------------------------------------------
(* The console.                                                            *)

StartAutomaticLink(l) ==
  /\ panel.link = 0 /\ l = started + 1
  /\ started' = l
  /\ codes' = [codes EXCEPT ![l] = now + Lifetime]
  /\ links' = Created(links, l, now)
  /\ panel' = [link |-> l, status |-> "waiting"]
  /\ UNCHANGED <<now, effect, polls, reported, cancelling, told, abandoned, givenUp, extension, added, events>>

(* React commits the new state: the old effect is disposed, the next one   *)
(* polls unless the status is final.                                       *)
Render ==
  /\ effect # panel
  /\ effect' = panel
  /\ UNCHANGED <<now, server, panel, polls, reported, cancelling, told, abandoned, givenUp, extension, events>>

(* The server's side of GET sessions/:id: it purges nothing.               *)
ReadAtServer(l) == ViewStatus(links[l], now)

(* Mutant: the panel polls only while the link waits.                      *)
PollSendsWhileWaiting ==
  /\ effect.link # 0 /\ effect.status = "waiting"
  /\ Cardinality(polls) < MaxPolls
  /\ polls' = polls \cup {[by |-> effect, status |-> ReadAtServer(effect.link)]}
  /\ UNCHANGED <<now, server, panel, effect, reported, cancelling, told, abandoned, givenUp, extension, events>>

PollSends ==
  /\ effect.link # 0 /\ effect.status \notin Final
  /\ Cardinality(polls) < MaxPolls
  /\ polls' = polls \cup {[by |-> effect, status |-> ReadAtServer(effect.link)]}
  /\ UNCHANGED <<now, server, panel, effect, reported, cancelling, told, abandoned, givenUp, extension, events>>

(* Mutant: a completed link is reported by every poll that sees it.        *)
PollReturnsReporting(p) ==
  /\ p \in polls /\ polls' = polls \ {p}
  /\ IF p.by # effect \/ p.status = "absent" THEN UNCHANGED <<panel, reported, told>>
     ELSE /\ panel' = [link |-> p.by.link, status |-> p.status]
          /\ reported' = (reported \/ p.status = "complete")
          /\ told' = IF p.status = "complete" THEN [told EXCEPT ![p.by.link] = @ + 1] ELSE told
  /\ UNCHANGED <<now, server, effect, cancelling, abandoned, givenUp, extension, events>>

(* The answer of a poll; a disposed effect ignores it, 404 is an error.    *)
PollReturns(p) ==
  /\ p \in polls /\ polls' = polls \ {p}
  /\ IF p.by # effect \/ p.status = "absent" THEN UNCHANGED <<panel, reported, told>>
     ELSE /\ panel' = [link |-> p.by.link, status |-> p.status]
          /\ reported' = (reported \/ p.status = "complete")
          /\ told' = IF p.status = "complete" /\ ~reported
                     THEN [told EXCEPT ![p.by.link] = @ + 1] ELSE told
  /\ UNCHANGED <<now, server, effect, cancelling, abandoned, givenUp, extension, events>>

PollFails(p) ==
  /\ Act
  /\ p \in polls /\ polls' = polls \ {p}
  /\ UNCHANGED <<now, server, panel, effect, reported, cancelling, told, abandoned, givenUp, extension>>

(* The server's side of DELETE sessions/:id.                               *)
CancelAtServer(l) ==
  links' = IF Cancellable(links[l]) THEN [links EXCEPT ![l] = Cancelled(@)] ELSE links

CancelClicked ==
  /\ Act /\ panel.link # 0 /\ ~cancelling
  /\ cancelling' = TRUE
  /\ abandoned' = abandoned \cup {panel.link} /\ givenUp' = givenUp + 1
  /\ IF panel.status \in Final THEN UNCHANGED links ELSE CancelAtServer(panel.link)
  /\ UNCHANGED <<now, started, codes, added, panel, effect, polls, reported, told, extension>>

CancelReturns ==
  /\ cancelling /\ cancelling' = FALSE
  /\ panel' = NoPanel /\ reported' = FALSE
  /\ UNCHANGED <<now, server, effect, polls, told, abandoned, givenUp, extension, events>>

(* closePanel: nobody waits for its request, the panel is unmounted.       *)
ClosePanel ==
  /\ Act /\ panel.link # 0 /\ ~cancelling
  /\ abandoned' = abandoned \cup {panel.link} /\ givenUp' = givenUp + 1
  /\ IF panel.status \in Final THEN UNCHANGED links ELSE CancelAtServer(panel.link)
  /\ panel' = NoPanel /\ effect' = NoPanel /\ reported' = FALSE
  /\ UNCHANGED <<now, started, codes, added, polls, cancelling, told, extension>>

-----------------------------------------------------------------------------
(* The extension.                                                          *)

Free(i) == checks[i] = NoCheck /\ \A j \in 1..(i - 1) : checks[j] # NoCheck

(* runSessionCheck up to its first await: a marked tab is turned away.     *)
Enter(i, by) ==
  IF inFlight
  THEN /\ script' = IF by = "script" THEN "stopped" ELSE script
       /\ UNCHANGED checks
  ELSE /\ Free(i)
       /\ checks' = [checks EXCEPT ![i] = [phase |-> "reading", link |-> 0, by |-> by]]
       /\ script' = IF by = "script" THEN "asking" ELSE script

(* What a content script does with the answer of its check.                *)
Answer(i, active) ==
  script' = CASE checks[i].by # "script" -> script
              [] active                  -> "timer"
              [] OTHER                   -> "stopped"

(* The service worker's isValidPayload and the popup's decoding of a code. *)
Valid(l) == l # 0 /\ codes[l] > now /\ codes[l] <= now + Lifetime

PopupOpens ==
  /\ Act
  /\ candidate' = 0 /\ finished' = FALSE
  /\ UNCHANGED <<now, server, console, pending, shown, inFlight, checks, script, loggedIn>>

(* The user pastes the code of a link.                                     *)
UpdateCandidate(l) ==
  /\ Act
  /\ l <= started /\ ~finished
  /\ candidate' = IF Valid(l) THEN l ELSE 0
  /\ UNCHANGED <<now, server, console, finished, pending, shown, inFlight, checks, script, loggedIn>>

(* The start button: the code may have expired in the field.               *)
StartPairing(i) ==
  /\ Act
  /\ Valid(candidate) /\ ~finished
  /\ pending' = candidate /\ shown' = "waiting"
  /\ Enter(i, "start")
  /\ UNCHANGED <<now, server, console, candidate, finished, inFlight, loggedIn>>

CancelPairing ==
  /\ Act /\ pending # 0
  /\ pending' = 0 /\ shown' = "idle"
  /\ UNCHANGED <<now, server, console, candidate, finished, inFlight, checks, script, loggedIn>>

(* GET_STATUS, each second while the popup is open.                        *)
RefreshStatus ==
  /\ shown = "complete" /\ ~finished
  /\ finished' = TRUE
  /\ UNCHANGED <<now, server, console, candidate, pending, shown, inFlight, checks, script, loggedIn,
                 events>>

ScriptTimer(i) ==
  /\ script = "timer"
  /\ Enter(i, "script")
  /\ UNCHANGED <<now, server, console, candidate, finished, pending, shown, inFlight, loggedIn, events>>

(* The page is loaded or shown, or another one writes the localStorage.    *)
ScriptWakes(i) ==
  /\ Act /\ script # "asking"
  /\ Enter(i, "script")
  /\ UNCHANGED <<now, server, console, candidate, finished, pending, shown, inFlight, loggedIn>>

UserLogsIn ==
  /\ ~loggedIn /\ loggedIn' = TRUE
  /\ UNCHANGED <<now, server, console, candidate, finished, pending, shown, inFlight, checks, script,
                 events>>

(* The stored link has been read; only now is the tab marked.              *)
CheckReads(i) ==
  /\ checks[i].phase = "reading"
  /\ IF ~Valid(pending)
     THEN /\ checks' = [checks EXCEPT ![i] = NoCheck]
          /\ pending' = 0
          /\ shown' = IF pending # 0 THEN "expired" ELSE shown
          /\ Answer(i, FALSE)
          /\ UNCHANGED inFlight
     ELSE /\ checks' = [checks EXCEPT ![i].link = pending,
                                      ![i].phase = IF loggedIn THEN "sent" ELSE "waiting"]
          /\ inFlight' = TRUE
          /\ UNCHANGED <<pending, shown, script>>
  /\ UNCHANGED <<now, server, console, candidate, finished, loggedIn, events>>

(* completeDeepSeekLink claims the session.                                *)
ServerClaims(i) ==
  LET l == checks[i].link
      kind == ClaimKind(links[l], now)
  IN  /\ checks[i].phase = "sent"
      /\ links' = IF kind = "ready" THEN [links EXCEPT ![l] = Claimed(@)] ELSE links
      /\ checks' = [checks EXCEPT ![i].phase = CASE kind = "refused" -> "error"
                                                 [] kind = "ready"   -> "validating"
                                                 [] OTHER            -> kind]
      /\ UNCHANGED <<now, started, codes, added, console, candidate, finished, pending, shown,
                     inFlight, script, loggedIn, events>>

Heard(verdict) ==
  CASE verdict = "added"     -> "complete"
    [] verdict = "duplicate" -> "busy"
    [] verdict = "unhealthy" -> "error"

(* A validation ends, for the check that still waits for it, if any.  It   *)
(* goes on when its session is cancelled or evicted.  The 409 of an        *)
(* identity registered already reads as busy.                              *)
ServerValidates(i, verdict) ==
  LET l == checks[i].link
  IN  /\ checks[i].phase \in {"validating", "lost"}
      /\ links' = [links EXCEPT ![l] = IF verdict = "added" THEN Completed(@, l) ELSE Failed(@)]
      /\ added' = IF verdict = "added" THEN added \cup {l} ELSE added
      /\ checks' = [checks EXCEPT ![i] = IF @.phase = "lost" THEN NoCheck
                                         ELSE [@ EXCEPT !.phase = Heard(verdict)]]
      /\ UNCHANGED <<now, started, codes, console, candidate, finished, pending, shown, inFlight,
                     script, loggedIn, events>>

(* What the rest of runSessionCheck does with an answer: a completed or a  *)
(* failed attempt removes whatever link is stored by now.                  *)
Conclude(i, outcome) ==
  /\ inFlight' = FALSE
  /\ Answer(i, outcome \in {"waiting", "busy"})
  /\ IF outcome \in {"waiting", "busy"} THEN UNCHANGED <<pending, shown>>
     ELSE pending' = 0 /\ shown' = outcome

CheckReturns(i) ==
  /\ checks[i].phase \in {"waiting", "busy", "complete", "error"}
  /\ Conclude(i, checks[i].phase)
  /\ checks' = [checks EXCEPT ![i] = NoCheck]
  /\ UNCHANGED <<now, server, console, candidate, finished, loggedIn, events>>

(* The route refuses the call before the session is claimed: ten calls a   *)
(* minute, an origin and a payload that it accepts.                        *)
RouteRefuses(i) ==
  /\ Act /\ checks[i].phase = "sent"
  /\ Conclude(i, "error")
  /\ checks' = [checks EXCEPT ![i] = NoCheck]
  /\ UNCHANGED <<now, server, console, candidate, finished, loggedIn>>

(* The connection breaks before the server has the token, or while the     *)
(* token is validated: the extension has an error, the validation goes on. *)
ConnectionLost(i) ==
  /\ Act /\ checks[i].phase \in {"sent", "validating"}
  /\ Conclude(i, "error")
  /\ checks' = [checks EXCEPT ![i] = IF @.phase = "sent" THEN NoCheck
                                     ELSE [phase |-> "lost", link |-> @.link, by |-> "script"]]
  /\ UNCHANGED <<now, server, console, candidate, finished, loggedIn>>

Tick ==
  /\ now < MaxTime
  /\ now' = now + 1
  /\ UNCHANGED <<server, console, extension, events>>

-----------------------------------------------------------------------------
Init ==
  /\ now = 0 /\ events = 0 /\ started = 0 /\ added = {}
  /\ links = [l \in Links |-> NoLink]
  /\ panel = NoPanel /\ effect = NoPanel /\ polls = {}
  /\ reported = FALSE /\ cancelling = FALSE
  /\ told = [l \in Links |-> 0] /\ abandoned = {} /\ givenUp = 0
  /\ codes = [l \in Links |-> 0] /\ candidate = 0 /\ finished = FALSE
  /\ pending = 0 /\ shown = "idle" /\ inFlight = FALSE
  /\ checks = [i \in 1..MaxChecks |-> NoCheck]
  /\ script = "stopped" /\ loggedIn = FALSE

CheckSteps(i) ==
  \/ CheckReads(i) \/ ServerClaims(i) \/ CheckReturns(i)
  \/ \E verdict \in {"added", "duplicate", "unhealthy"} : ServerValidates(i, verdict)

Next ==
  \/ \E l \in Links : StartAutomaticLink(l)
  \/ Render \/ PollSends
  \/ \E p \in polls : PollReturns(p) \/ PollFails(p)
  \/ CancelClicked \/ CancelReturns \/ ClosePanel
  \/ \E i \in 1..MaxChecks :
       \/ StartPairing(i) \/ ScriptTimer(i) \/ ScriptWakes(i)
       \/ RouteRefuses(i) \/ ConnectionLost(i) \/ CheckSteps(i)
  \/ \E l \in Links : UpdateCandidate(l)
  \/ PopupOpens \/ CancelPairing \/ RefreshStatus \/ UserLogsIn \/ Tick

Spec == Init /\ [][Next]_vars

(* Timers fire, requests are answered, React renders; the users need never *)
(* act.                                                                    *)
FairSpec ==
  /\ Spec
  /\ WF_vars(Render) /\ WF_vars(PollSends) /\ WF_vars(CancelReturns)
  /\ WF_vars(\E p \in polls : PollReturns(p))
  /\ WF_vars(\E i \in 1..MaxChecks : ScriptTimer(i))
  /\ \A i \in 1..MaxChecks : WF_vars(CheckSteps(i))

-----------------------------------------------------------------------------
(* The console hears of a link's account once, unless its user gives up:   *)
(* giving up clears the ref that remembers the report, and a poll answered *)
(* before React renders that brings the link back and reports it again.    *)
(* Each giving up excuses one such report, whichever the link.  The        *)
(* console is never told of an account that was not added, the popup never *)
(* of one when none was, however polls and checks overlap                  *)
(* (App.tsx:1713-1746, 1841-1857, service-worker.js:76-105).               *)
ToldOnceAndTruly ==
  /\ \A l \in Links : /\ told[l] <= 1 \/ l \in abandoned
                      /\ told[l] <= 1 + givenUp
                      /\ told[l] > 0 => l \in added
  /\ shown = "complete" \/ finished => added # {}

(* A link that completes while the panel shows it is reported, unless the  *)
(* user gives up or the ten minutes end before the next poll               *)
(* (App.tsx:1713-1746, deepseek-link-session.ts:180-190).                  *)
ConsoleLearns ==
  \A l \in Links :
    links[l].status = "complete" /\ panel.link = l
      ~> told[l] > 0 \/ panel.link # l \/ cancelling \/ links[l].expires <= now
=============================================================================
