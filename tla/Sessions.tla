------------------------------- MODULE Sessions -------------------------------
(***************************************************************************)
(* A user's session on one device: the rotating refresh token that the     *)
(* device keeps (pos_api_client.dart, session_vault.dart) and the rows of  *)
(* pos.pos_sessions behind it (rpc_auth_sync.sql, api/routes/auth.ts).     *)
(*                                                                         *)
(* A client is a process on the device that holds a PosApiClient and a     *)
(* copy of the session book: the app, and the background task that the     *)
(* platform starts beside it.  Both keep the book in the same secure       *)
(* storage, read it once, and rotate the same token.                       *)
(*                                                                         *)
(* A statement of the server sees the rows that were committed when it     *)
(* began, and waits for rows that another transaction has locked: so a     *)
(* transaction that locks or updates several rows is two steps, what it    *)
(* read and what it writes.                                                *)
(***************************************************************************)
EXTENDS Naturals, FiniteSets

CONSTANTS
  Worlds,      \* sets of disturbances: what may happen together
  MaxSession   \* MaxSession[w]: bound on the rows of pos_sessions in world w

\* lost: answers get lost, requests arrive late, the app dies.
\* task: the background task runs beside the app.
\* agent: calls that need no refresh are made and refused.
\* admin: the administrator revokes and deactivates.
\* again: the user signs in although the device has a session.
Disturbance == {"lost", "task", "agent", "admin", "again"}

ASSUME SessionAssumption ==
  /\ Worlds \subseteq SUBSET Disturbance
  /\ MaxSession \in [Worlds -> Nat]

VARIABLES
  world,      \* the disturbances of this behaviour, fixed from its start
  sess,       \* sess[s]: a row of pos_sessions; its id also names its tokens
  active,     \* the user is active
  reuse,      \* families with a reuse_detected event
  signedOut,  \* families with a sign-out event
  late,       \* tokens of given-up refresh requests that may still arrive
  stored,     \* the user's entry of the session book in secure storage
  running,    \* processes that have read it
  book,       \* book[c]: c's copy of it
  call        \* call[c][k]: c's call of kind k and the server's work on it

serverVars == <<sess, active, reuse, signedOut>>
deviceVars == <<stored, running, book>>
vars == <<sess, active, reuse, signedOut, late, stored, running, book,
          call>>

Client == {"app", "task"}
May(d) == d \in world

-----------------------------------------------------------------------------
Sid  == UNION {1 .. MaxSession[w] : w \in Worlds}
Sid0 == {0} \cup Sid
Kind == {"refresh", "signout", "exchange", "agent"}
Scope == {"full", "ingest_only"}

Row == [family: Sid0, scope: Scope, rotated: BOOLEAN, revoked: BOOLEAN]
NoRow == [family |-> 0, scope |-> "ingest_only", rotated |-> FALSE, revoked |-> FALSE]

\* StoredSession: endedBy is reduced to whether it is there.
Entry == [sid: Sid0, scope: Scope, ui: BOOLEAN, pending: BOOLEAN,
          ended: BOOLEAN]
NoEntry == [sid |-> 0, scope |-> "ingest_only", ui |-> FALSE, pending |-> FALSE,
            ended |-> TRUE]

\* A call: the token it carries, whether the UI was open when it was made,
\* the rows the server's statement saw, and the scope it read or answers.
Answer == {"none", "ok", "ended", "scope", "refused"}
Call == [phase: {"idle", "sent", "working", "answered"}, sid: Sid0,
         ui: BOOLEAN, sees: SUBSET Sid, scope: Scope, answer: Answer]
NoCall == [phase |-> "idle", sid |-> 0, ui |-> FALSE, sees |-> {},
           scope |-> "ingest_only", answer |-> "none"]

Init ==
  /\ world \in Worlds
  /\ sess = [s \in Sid |-> NoRow]
  /\ active = TRUE
  /\ reuse = {} /\ signedOut = {}
  /\ late = {}
  /\ stored = NoEntry
  /\ running = {}
  /\ book = [c \in Client |-> NoEntry]
  /\ call = [c \in Client |-> [k \in Kind |-> NoCall]]

Issued == {s \in Sid : sess[s].family # 0}
Fresh == Cardinality(Issued) + 1
Family(f) == {s \in Issued : sess[s].family = f}
Live(s) == s \in Issued /\ ~sess[s].rotated /\ ~sess[s].revoked

\* Mutant: the presented row is read without FOR UPDATE.
LockedNone == {}

\* Rows locked by a transaction at work on them.
Locked == {call[c]["refresh"].sid :
             c \in {d \in Client : /\ call[d]["refresh"].phase = "working"
                                   /\ call[d]["refresh"].sees = {}}}

\* MaxSession leaves an id for one more transaction that issues a token.
Spare == Cardinality(Issued) + Cardinality(Locked) < MaxSession[world]

Revoke(S) == [s \in Sid |-> IF s \in S THEN [sess[s] EXCEPT !.revoked = TRUE]
                            ELSE sess[s]]

Becomes(c, k, new) == call' = [call EXCEPT ![c][k] = new]
Answered(c, k, a) == Becomes(c, k, [call[c][k] EXCEPT !.phase = "answered", !.answer = a])

-----------------------------------------------------------------------------
(* The server. *)

\* auth_refresh: what becomes of a presented token.
RefreshOutcome(s) ==
  IF sess[s].rotated THEN "reuse" ELSE IF sess[s].revoked THEN "ended" ELSE "ok"

\* The row a refresh inserts keeps the family, and full scope only for an
\* active user.
RotatedScope(s) == IF active THEN sess[s].scope ELSE "ingest_only"

\* POST /auth/refresh, up to what the transaction has read under its lock.
RefreshReads(c) ==
  LET q == call[c]["refresh"] IN
  /\ q.phase = "sent"
  /\ q.sid \notin Locked
  /\ CASE RefreshOutcome(q.sid) = "reuse" ->
            Becomes(c, "refresh",
                    [q EXCEPT !.phase = "working",
                              !.sees = {s \in Family(sess[q.sid].family) : ~sess[s].revoked}
                                       \cup {q.sid}])
       [] RefreshOutcome(q.sid) = "ended" -> Answered(c, "refresh", "ended")
       [] OTHER -> /\ Spare
                   /\ Becomes(c, "refresh", [q EXCEPT !.phase = "working",
                                                      !.scope = RotatedScope(q.sid)])
  /\ UNCHANGED <<serverVars, late, deviceVars>>

\* It commits: the old token is rotated away and the new one issued, or, for
\* a token that had been rotated before, every row seen of its family is
\* revoked (the error is returned, not raised).
RefreshCommits(c) ==
  LET q == call[c]["refresh"] IN
  /\ q.phase = "working"
  /\ \/ /\ q.sees = {}
        /\ sess' = [sess EXCEPT ![q.sid].rotated = TRUE,
                                ![Fresh] = [family |-> sess[q.sid].family, scope |-> q.scope,
                                            rotated |-> FALSE, revoked |-> FALSE]]
        /\ Becomes(c, "refresh", [q EXCEPT !.phase = "answered", !.answer = "ok", !.sid = Fresh])
        /\ UNCHANGED reuse
     \/ /\ q.sees # {}
        /\ q.sees \cap Locked = {}
        /\ sess' = Revoke(q.sees)
        /\ reuse' = reuse \cup {sess[q.sid].family}
        /\ Answered(c, "refresh", "ended")
  /\ UNCHANGED <<active, signedOut, late, deviceVars>>

\* A refresh request nobody waits for any more reaches the server.
LateRefresh(s) ==
  /\ s \in late \ Locked
  /\ late' = late \ {s}
  /\ CASE RefreshOutcome(s) = "reuse" ->
            /\ Family(sess[s].family) \cap Locked = {}
            /\ sess' = Revoke(Family(sess[s].family))
            /\ reuse' = reuse \cup {sess[s].family}
       [] RefreshOutcome(s) = "ended" -> UNCHANGED <<sess, reuse>>
       [] OTHER ->
            /\ Spare
            /\ sess' = [sess EXCEPT ![s].rotated = TRUE,
                                    ![Fresh] = [family |-> sess[s].family,
                                                scope |-> RotatedScope(s),
                                                rotated |-> FALSE, revoked |-> FALSE]]
            /\ UNCHANGED reuse
  /\ UNCHANGED <<active, signedOut, deviceVars, call>>

LateRefreshLost(s) ==
  /\ s \in late
  /\ late' = late \ {s}
  /\ UNCHANGED <<serverVars, deviceVars, call>>

\* requireAgent, and the update of auth_signout up to its snapshot.
SignOutReads(c) ==
  LET q == call[c]["signout"] IN
  /\ q.phase = "sent"
  /\ IF sess[q.sid].revoked THEN Answered(c, "signout", "ended")
     ELSE Becomes(c, "signout",
                  [q EXCEPT !.phase = "working", !.sees = Family(sess[q.sid].family)])
  /\ UNCHANGED <<serverVars, late, deviceVars>>

SignOutCommits(c) ==
  LET q == call[c]["signout"] IN
  /\ q.phase = "working"
  /\ q.sees \cap Locked = {}
  /\ sess' = [s \in Sid |-> IF s \in q.sees /\ ~sess[s].revoked
                            THEN [sess[s] EXCEPT !.scope = "ingest_only"] ELSE sess[s]]
  /\ signedOut' = signedOut \cup {sess[q.sid].family}
  /\ Answered(c, "signout", "ok")
  /\ UNCHANGED <<active, reuse, late, deviceVars>>

\* POST /auth/exchange: a new session starts a family of its own.
ExchangeServed(c) ==
  LET q == call[c]["exchange"] IN
  /\ q.phase = "sent"
  /\ IF active
     THEN /\ Spare
          /\ sess' = [sess EXCEPT ![Fresh] = [family |-> Fresh, scope |-> "full",
                                              rotated |-> FALSE, revoked |-> FALSE]]
          /\ Becomes(c, "exchange", [q EXCEPT !.phase = "answered", !.answer = "ok", !.sid = Fresh])
     ELSE Answered(c, "exchange", "refused") /\ UNCHANGED sess
  /\ UNCHANGED <<active, reuse, signedOut, late, deviceVars>>

\* requireAgent, on a route that takes the scopes S: the row decides, not
\* the token.
AgentCallServed(c, S) ==
  LET q == call[c]["agent"] IN
  /\ q.phase = "sent"
  /\ Answered(c, "agent", IF sess[q.sid].revoked THEN "ended"
                          ELSE IF sess[q.sid].scope \in S THEN "ok" ELSE "scope")
  /\ UNCHANGED <<serverVars, late, deviceVars>>

\* admin_session_revoke
AdminRevokes(f) ==
  /\ May("admin")
  /\ Family(f) # {} /\ Family(f) \cap Locked = {}
  /\ sess' = Revoke(Family(f))
  /\ UNCHANGED <<active, reuse, signedOut, late, deviceVars, call>>

\* admin_user_deactivate, in its two modes.
AdminDeactivates ==
  /\ May("admin")
  /\ Locked = {}
  /\ active' = FALSE
  /\ \/ /\ active
        /\ sess' = [s \in Sid |-> IF s \in Issued /\ ~sess[s].revoked
                                  THEN [sess[s] EXCEPT !.scope = "ingest_only"] ELSE sess[s]]
     \/ sess' = Revoke(Issued)
  /\ UNCHANGED <<reuse, signedOut, late, deviceVars, call>>

-----------------------------------------------------------------------------
(* The device. *)

\* SessionVault.read: what c goes by.
Current(c) == IF c \in running THEN book[c] ELSE stored
Usable(c) == ~Current(c).ended

\* SessionVault.update: c's copy, and the whole book in secure storage.
Update(c, e) ==
  /\ running' = running \cup {c}
  /\ book' = [book EXCEPT ![c] = e]
  /\ stored' = e

Idle(c, k) == call[c][k].phase = "idle"
Send(c, k) ==
  /\ c = "task" => May("task")
  /\ Becomes(c, k, [NoCall EXCEPT !.phase = "sent", !.sid = Current(c).sid,
                                         !.ui = Current(c).ui])
\* The vault is read before the call.
Reads(c) ==
  /\ running' = running \cup {c}
  /\ book' = [book EXCEPT ![c] = Current(c)]
  /\ UNCHANGED stored

\* Mutant: every call refreshes for itself.
StartRefreshEach(c) ==
  /\ Usable(c)
  /\ Send(c, "refresh")
  /\ late' = IF Idle(c, "refresh") THEN late ELSE late \cup {Current(c).sid}
  /\ Reads(c) /\ UNCHANGED serverVars

\* refresh: one at a time per user and process.
StartRefresh(c) ==
  /\ Usable(c)
  /\ Idle(c, "refresh")
  /\ Send(c, "refresh")
  /\ Reads(c) /\ UNCHANGED <<serverVars, late>>

\* Mutant: the refreshed session takes the flags it had when it was sent.
MergedAsSent(q, latest) ==
  [sid |-> q.sid, scope |-> q.scope, ui |-> q.ui /\ q.scope = "full",
   pending |-> latest.pending, ended |-> FALSE]

\* Mutant: the refreshed session forgets the sign-out that waits.
MergedWithoutPending(q, latest) ==
  [sid |-> q.sid, scope |-> q.scope,
   ui |-> q.ui /\ q.scope = "full" /\ latest.ui,
   pending |-> FALSE, ended |-> FALSE]

\* rotated, and _merge: flags that changed while the refresh was in flight.
Merged(q, latest) ==
  [sid |-> q.sid, scope |-> q.scope,
   ui |-> q.ui /\ q.scope = "full" /\ latest.ui,
   pending |-> latest.pending, ended |-> FALSE]

\* Mutant: what a rotated-away token answers is not taken for the end.
EndedEntryKept(e) == e

\* _end, on the latest copy.
EndedEntry(e) == IF e.ended THEN e ELSE [e EXCEPT !.ended = TRUE, !.ui = FALSE,
                                                  !.pending = FALSE]

TakeRefresh(c) ==
  LET q == call[c]["refresh"] IN
  /\ q.phase = "answered"
  /\ Update(c, IF q.answer = "ok" THEN Merged(q, Current(c)) ELSE EndedEntry(Current(c)))
  /\ Becomes(c, "refresh", NoCall)
  /\ UNCHANGED <<serverVars, late>>

\* The host signs in.  The platform's task has no host.
StartExchange(c) ==
  /\ c = "app"
  /\ Usable(c) => May("again")
  /\ Idle(c, "exchange")
  /\ Send(c, "exchange")
  /\ Reads(c) /\ UNCHANGED <<serverVars, late>>

\* StoredSession.fromTokens of an exchange.
SignedIn(q, latest) ==
  [sid |-> q.sid, scope |-> "full", ui |-> TRUE, pending |-> FALSE, ended |-> FALSE]

\* endUiAccess, on the latest copy.
UiEnded(e) == IF e.ended THEN e ELSE [e EXCEPT !.ui = FALSE, !.pending = TRUE]

TakeExchange(c) ==
  LET q == call[c]["exchange"] IN
  /\ q.phase = "answered"
  /\ Update(c, IF q.answer = "ok" THEN SignedIn(q, Current(c)) ELSE UiEnded(Current(c)))
  /\ Becomes(c, "exchange", NoCall)
  /\ UNCHANGED <<serverVars, late>>

\* The exchange did not get through: the stored session is used offline.
OfflineSignIn(c) ==
  /\ May("lost") /\ c = "app"
  /\ ~Idle(c, "exchange") /\ call[c]["exchange"].phase # "working"
  /\ Becomes(c, "exchange", NoCall)
  /\ IF Usable(c)
     THEN Update(c, [Current(c) EXCEPT !.ui = Current(c).scope = "full", !.pending = FALSE])
     ELSE UNCHANGED deviceVars
  /\ UNCHANGED <<serverVars, late>>

\* The user signs out.
EndUiAccess(c) ==
  /\ c = "app"
  /\ Usable(c) /\ Current(c).ui
  /\ Update(c, UiEnded(Current(c)))
  /\ UNCHANGED <<serverVars, late, call>>

\* _sendSignOut: now, or before the user's next call.
StartSignOut(c) ==
  /\ Usable(c) /\ Current(c).pending
  /\ Idle(c, "signout")
  /\ Send(c, "signout")
  /\ Reads(c) /\ UNCHANGED <<serverVars, late>>

TakeSignOut(c) ==
  LET q == call[c]["signout"]
      e == Current(c) IN
  /\ q.phase = "answered"
  /\ Update(c, IF q.answer = "ended" THEN EndedEntry(e)
               ELSE IF e.sid = 0 THEN e
               ELSE [e EXCEPT !.scope = "ingest_only", !.ui = FALSE, !.pending = FALSE])
  /\ Becomes(c, "signout", NoCall)
  /\ UNCHANGED <<serverVars, late>>

\* _agentCall: goes out although a sign-out before it did not get through.
StartAgentCall(c) ==
  /\ May("agent")
  /\ Usable(c)
  /\ Current(c).pending => May("lost")
  /\ Idle(c, "agent")
  /\ Send(c, "agent")
  /\ Reads(c) /\ UNCHANGED <<serverVars, late>>

\* _noteRefusal
TakeAgentCall(c) ==
  LET q == call[c]["agent"]
      e == Current(c) IN
  /\ q.phase = "answered"
  /\ CASE q.answer = "ended" -> Update(c, EndedEntry(e))
       [] q.answer = "scope" -> Update(c, [e EXCEPT !.scope = "ingest_only", !.ui = FALSE])
       [] OTHER -> UNCHANGED deviceVars
  /\ Becomes(c, "agent", NoCall)
  /\ UNCHANGED <<serverVars, late>>

\* No answer: nothing changes on the device, and a refresh may still arrive.
AnswerLost(c, k) ==
  /\ May("lost")
  /\ call[c][k].phase \in {"sent", "answered"}
  /\ late' = IF k = "refresh" /\ call[c][k].phase = "sent"
             THEN late \cup {call[c][k].sid} ELSE late
  /\ Becomes(c, k, NoCall)
  /\ UNCHANGED <<serverVars, deviceVars>>

\* The process dies, and another one will read the storage.
Dies(c) ==
  /\ May("lost") \/ c = "task"
  /\ c \in running
  /\ \A k \in Kind : Idle(c, k)
  /\ running' = running \ {c}
  /\ book' = [book EXCEPT ![c] = NoEntry]
  /\ UNCHANGED <<serverVars, stored, late, call>>

-----------------------------------------------------------------------------
Server(c) ==
  \/ RefreshReads(c) \/ RefreshCommits(c) \/ SignOutReads(c) \/ SignOutCommits(c)
  \/ ExchangeServed(c)
  \/ AgentCallServed(c, {"full"}) \/ AgentCallServed(c, Scope)

Takes(c) == TakeRefresh(c) \/ TakeExchange(c) \/ TakeSignOut(c) \/ TakeAgentCall(c)

Starts(c) == StartRefresh(c) \/ StartExchange(c) \/ StartSignOut(c) \/ StartAgentCall(c)

Next ==
  \/ \E c \in Client :
       \/ Server(c) \/ Takes(c) \/ Starts(c) \/ EndUiAccess(c) \/ OfflineSignIn(c)
       \/ Dies(c)
       \/ \E k \in Kind : AnswerLost(c, k)
  \/ \E s \in Sid : LateRefresh(s) \/ LateRefreshLost(s) \/ AdminRevokes(s)
  \/ AdminDeactivates

Spec == Init /\ [][Next /\ UNCHANGED world]_<<vars, world>>

\* The server finishes its transactions, a call without an answer times out,
\* requests that nobody waits for are gone some day, and a call made again
\* and again gets through some day.
\* A refresh is due whenever the access token has expired, a pending sign-out
\* goes before every call.
Fairness ==
  /\ SF_vars(RefreshReads("app")) /\ WF_vars(RefreshCommits("app"))
  /\ SF_vars(SignOutReads("app")) /\ WF_vars(SignOutCommits("app"))
  /\ WF_vars(StartRefresh("app")) /\ SF_vars(TakeRefresh("app"))
  /\ WF_vars(StartSignOut("app")) /\ SF_vars(TakeSignOut("app"))
  /\ \A k \in Kind : WF_vars(AnswerLost("app", k))
  /\ \A s \in Sid : WF_vars(LateRefreshLost(s))

FairSpec == Spec /\ Fairness

-----------------------------------------------------------------------------
\* A family never has two refresh tokens that could both be redeemed,
\* although two processes rotate it and requests arrive late: the lock on the
\* presented row (rpc_auth_sync.sql:151) is what keeps them apart.
OneLiveToken ==
  \A s, t \in Sid : Live(s) /\ Live(t) /\ sess[s].family = sess[t].family => s = t

\* One process that loses no answers never presents a token it has rotated
\* away: concurrent refreshes share one request (pos_api_client.dart:32).
NoSelfReuse == ~May("lost") /\ ~May("task") => reuse = {}

\* Once the user has signed out, only a sign-in opens the UI again: not the
\* answer of a refresh that was under way (pos_api_client.dart:199).
SignedInNow == ~Idle("app", "exchange") /\ Idle("app", "exchange")'
SignOutSticks ==
  [][~Current("app").ui /\ Current("app").ui' => SignedInNow]_vars

\* A device whose token has been rotated away or revoked, the answer to its
\* refresh lost perhaps, does not use it for ever: it comes to know the end
\* of the session or has a token that can be redeemed.
StaleIsNoticed ==
  (May("lost") /\ Usable("app") /\ ~Live(Current("app").sid))
    ~> (~Usable("app") \/ Live(Current("app").sid))

\* The sign-out of session s has come about, or no longer matters: the family
\* has no token of full scope, the session ended, or the user is back.
SignedOutOf(s) ==
  LET e == Current("app") IN
  \/ sess[s].family \in signedOut
  \/ \A t \in Family(sess[s].family) : Live(t) => sess[t].scope = "ingest_only"
  \/ e.ended \/ e.ui \/ sess[e.sid].family # sess[s].family

\* A sign-out made offline reaches the server although refreshes rotate the
\* token meanwhile (pos_api_client.dart:94, endUiAccess), if it was made while
\* no other sign-out, and no call made with an older session, was on its way.
SignOutLands ==
  \A s \in Sid :
    (/\ May("lost")
     /\ Current("app").pending /\ Current("app").sid = s
     /\ Idle("app", "signout") /\ Idle("app", "agent"))
      ~> SignedOutOf(s)

=============================================================================
