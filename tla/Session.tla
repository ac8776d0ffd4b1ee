------------------------------ MODULE Session ------------------------------
(***************************************************************************)
(* The sessions of one browser: the rows of the table sessions, the        *)
(* requests that use them (session.middleware.ts, requireApiAuth.ts,       *)
(* csrf.middleware.ts, routes/session.ts, session.service.ts) and the      *)
(* pages that send them (web: SessionProvider.tsx, client.ts), which share *)
(* one cookie and hold each its own CSRF token.                            *)
(*                                                                         *)
(* A step is one SQL statement with the code up to the next await, the     *)
(* arrival of an answer, or what a user does to a page.  Times are ages.   *)
(* A CSRF token is random and only ever compared, so all there is to one   *)
(* is the session whose stored hash it matches: Stale, when its session    *)
(* has a newer one.                                                        *)
(***************************************************************************)
EXTENDS Naturals, FiniteSets

CONSTANTS
    Requests,     \* requests that can be under way at one time
    Tabs,         \* pages of the browser
    Sessions,     \* ids of session rows; bounds the sign-ins
    None,         \* no session, no token, no page
    Stale,        \* a token that has been replaced
    Absolute,     \* SESSION_ABSOLUTE_MS
    IdleLimit,    \* SESSION_IDLE_MS, in units longer than LAST_SEEN_THROTTLE_MS
    Faults        \* "statement", "network"

ASSUME SessionAssumption ==
    /\ IsFiniteSet(Requests) /\ IsFiniteSet(Tabs) /\ IsFiniteSet(Sessions)
    /\ {Absolute, IdleLimit} \subseteq Nat
    /\ None \notin Tabs \cup Sessions
    /\ Stale \notin Sessions \cup {None}
    /\ Faults \subseteq {"statement", "network"}

VARIABLES
    sess,     \* the rows of sessions
    cookie,   \* cargoexec_sid: the session it stands for
    page,     \* the pages
    req,      \* the requests
    over      \* history: sessions of which a request has recorded the end

vars == <<sess, cookie, page, req, over>>

-----------------------------------------------------------------------------
(* Rows, pages and requests. *)

Some(S) == S \cup {None}

CsrfToken == Some(Sessions) \cup {Stale}

\* age: since created_at; idle: since last_seen_at; both up to what the limits tell
\* apart.  They stay at 0 in a revoked row and idle does in one beyond its absolute limit,
\* where the code does not look at them or looks in vain.
Row == [used : BOOLEAN, age : 0 .. Absolute + 1,
        idle : 0 .. IdleLimit + 1, revoked : {"no", "SIGNED_OUT", "EXPIRED"}]

NoRow == [used |-> FALSE, age |-> 0, idle |-> 0, revoked |-> "no"]

\* of: the session whose answer the page shows
Page == [at : {"sign-in", "app"}, status : {"loading", "signed-in", "signed-out"},
         of : Some(Sessions), token : CsrfToken]

Loading(at) == [at |-> at, status |-> "loading", of |-> None, token |-> None]

\* "load" is GET /api/session, "work" any other state-changing request.
Kinds == {"load", "sign_in", "sign_out", "work"}
Writes == {"work", "sign_out"}
Codes == {"none", "OK", "UNAUTHENTICATED", "CSRF_INVALID", "RECEIPT_FAILED"}

\* page: the page that waits for the answer; sid: the session of the cookie, and then of
\* the answer; shown: history, whose session the page showed that sent a write; valid: the
\* token sent with it is the one of sid, as far as sid has been read, and then the token
\* of the answer is.
Request == [kind : Kinds, page : Some(Tabs), shown : {"nobody", "own", "other"},
            sid : Some(Sessions), valid : BOOLEAN,
            at : {"free", "sent", "expire", "touch", "mint", "rotate", "revoke", "answer"},
            code : Codes]

NoRequest == [kind |-> "load", page |-> None, shown |-> "nobody", sid |-> None,
              valid |-> FALSE, at |-> "free", code |-> "none"]

Init ==
    /\ sess = [s \in Sessions |-> NoRow]
    /\ cookie = None
    /\ page = [t \in Tabs |-> [Loading("sign-in") EXCEPT !.status = "signed-out"]]
    /\ req = [r \in Requests |-> NoRequest]
    /\ over = {}

-----------------------------------------------------------------------------
(* The pages. *)

\* The request function of client.ts: the browser adds the cookie, and the client its
\* token to what changes state.
Ask(kind, t) ==
    LET q == [NoRequest EXCEPT !.kind = kind, !.page = t, !.sid = cookie, !.at = "sent"]
        shown == CASE page[t].of = None -> "nobody"
                   [] page[t].of = cookie -> "own"
                   [] OTHER -> "other"
    IN IF kind \in Writes
       THEN [q EXCEPT !.shown = shown, !.valid = cookie # None /\ page[t].token = cookie]
       ELSE q

Send(r, kind, t) ==
    /\ req[r].at = "free"
    /\ req' = [req EXCEPT ![r] = Ask(kind, t)]

\* Nobody waits for the answer any more; the server does not notice.
Abandon(q) == IF q.at = "answer" THEN NoRequest ELSE [q EXCEPT !.page = None]

\* A document is loaded: what the page held is gone, its requests are aborted and
\* SessionProvider asks for the session.
Load(r, t, at) ==
    /\ req[r].at = "free"
    /\ page' = [page EXCEPT ![t] = Loading(at)]
    /\ req' = [q \in Requests |->
                 IF q = r THEN Ask("load", t)
                 ELSE IF req[q].page = t THEN Abandon(req[q]) ELSE req[q]]
    /\ UNCHANGED <<sess, cookie, over>>

\* The form of SignIn.tsx, which is there while the page loads, too.
SubmitSignIn(r, t) ==
    /\ page[t].at = "sign-in"
    /\ \A q \in Requests : req[q].page = t => req[q].kind # "sign_in"
    /\ Send(r, "sign_in", t)
    /\ UNCHANGED <<sess, cookie, page, over>>

\* AuthenticatedShell shows nothing before the session is resolved.
Use(r, t, kind) ==
    /\ page[t].at = "app"
    /\ page[t].status # "loading"
    /\ kind \in Writes
    /\ Send(r, kind, t)
    /\ UNCHANGED <<sess, cookie, page, over>>

-----------------------------------------------------------------------------
(* The server. *)

\* The answer, if anybody waits for it.
Reply(q, code) ==
    IF q.page = None THEN NoRequest
    ELSE [NoRequest EXCEPT !.kind = q.kind, !.page = q.page, !.at = "answer", !.code = code,
                           !.shown = IF code \in {"OK", "CSRF_INVALID"} THEN q.shown ELSE @]

\* The answer to a sign-in or a load: a session and its newest token.
ReplySession(q, s) ==
    IF q.page = None THEN NoRequest ELSE [Reply(q, "OK") EXCEPT !.sid = s, !.valid = TRUE]

\* Mutant: csrf.middleware.ts lets everything through.
CheckNothing(q) ==
    CASE q.kind = "load" -> [q EXCEPT !.at = "rotate"]
      [] q.kind = "work" -> Reply(q, "OK")
      [] OTHER -> [q EXCEPT !.at = "revoke", !.valid = FALSE]

\* csrfMiddleware and the start of the route, for a request with a principal
CheckCsrf(q) ==
    CASE q.kind = "load" -> [q EXCEPT !.at = "rotate"]
      [] q.kind \in Writes /\ ~q.valid -> Reply(q, "CSRF_INVALID")
      [] q.kind = "work" /\ q.valid -> Reply(q, "OK")
      [] OTHER -> [q EXCEPT !.at = "revoke", !.valid = FALSE]

\* requireApiAuth and what follows, for a request with a principal (known) or without:
\* they run in one go after sessionMiddleware.
Gate(q, known) ==
    CASE q.kind = "sign_in" -> [q EXCEPT !.at = "mint", !.sid = None]
      [] q.kind # "sign_in" /\ ~known -> Reply(q, "UNAUTHENTICATED")
      [] OTHER -> CheckCsrf(q)

Put(r, q) == req' = [req EXCEPT ![r] = q]

Expired(s) == sess[s].age > Absolute \/ sess[s].idle > IdleLimit

\* loadSessionByToken, with what sessionMiddleware does of the outcome: an expiry is to be
\* recorded, a valid session is remembered with the hash of its token and touched when the
\* last touch is old enough, which it may be within a unit of time.  The specialist of a
\* session may be inactive at any time: that is in the operator's hands.
Resolve(r) ==
    LET s == req[r].sid
        q == req[r]
    IN /\ req[r].at = "sent"
       /\ \/ /\ s = None
             /\ Put(r, Gate(q, FALSE))
          \/ /\ s # None
             /\ sess[s].revoked # "no"
             /\ Put(r, Gate(q, FALSE))
          \/ /\ s # None
             /\ sess[s].revoked = "no" /\ Expired(s)
             /\ Put(r, [q EXCEPT !.at = "expire", !.valid = FALSE])
          \/ /\ s # None
             /\ sess[s].revoked = "no" /\ ~Expired(s)
             /\ \/ Put(r, Gate(q, FALSE))
                \/ Put(r, Gate(q, TRUE)) /\ sess[s].idle = 0
                \/ Put(r, [q EXCEPT !.at = "touch"])
       /\ UNCHANGED <<sess, cookie, page, over>>

\* Mutant: the UPDATE has no "revoked_at IS NULL".
RevokeAgain(s, reason) ==
    [sess EXCEPT ![s] = [NoRow EXCEPT !.used = TRUE, !.revoked = reason]]

\* Mutant: an expiry is not recorded.
RevokeSignedOut(s, reason) ==
    IF sess[s].revoked = "no" /\ reason = "SIGNED_OUT"
    THEN [sess EXCEPT ![s] = [NoRow EXCEPT !.used = TRUE, !.revoked = reason]]
    ELSE sess

\* revokeSession
Revoke(s, reason) ==
    IF sess[s].revoked = "no"
    THEN [sess EXCEPT ![s] = [NoRow EXCEPT !.used = TRUE, !.revoked = reason]]
    ELSE sess

\* expireSessionByToken: it looks only whether the session is revoked, so that a session
\* touched since is expired all the same.
Expire(r) ==
    /\ req[r].at = "expire"
    /\ sess' = Revoke(req[r].sid, "EXPIRED")
    /\ over' = over \cup {req[r].sid}
    /\ Put(r, Gate(req[r], FALSE))
    /\ UNCHANGED <<cookie, page>>

\* touchSession, whether or not the session has been revoked or has expired since
Touch(r) ==
    /\ req[r].at = "touch"
    /\ sess' = [sess EXCEPT ![req[r].sid].idle = 0]
    /\ Put(r, Gate(req[r], TRUE))
    /\ UNCHANGED <<cookie, page, over>>

\* insertSession: the answer carries the new session and its token.
Mint(r, s) ==
    /\ req[r].at = "mint"
    /\ ~sess[s].used
    /\ sess' = [sess EXCEPT ![s].used = TRUE]
    /\ Put(r, ReplySession(req[r], s))
    /\ UNCHANGED <<cookie, page, over>>

\* rotateCsrfToken: whoever has a token of this session has an old one now, except a
\* request that has been compared with the row already.
Rotate(r) ==
    LET s == req[r].sid
    IN /\ req[r].at = "rotate"
       /\ page' = [t \in Tabs |->
                     [page[t] EXCEPT !.token = IF @ = s THEN Stale ELSE @]]
       /\ req' = [q \in Requests |->
                    IF q = r THEN ReplySession(req[r], s)
                    ELSE [req[q] EXCEPT !.valid =
                            @ /\ ~(req[q].sid = s /\ req[q].at \in {"sent", "answer"})]]
       /\ UNCHANGED <<sess, cookie, over>>

\* signOut
SignOut(r) ==
    /\ req[r].at = "revoke"
    /\ sess' = Revoke(req[r].sid, "SIGNED_OUT")
    /\ over' = over \cup {req[r].sid}
    /\ Put(r, Reply(req[r], "OK"))
    /\ UNCHANGED <<cookie, page>>

\* A statement fails.  sessionMiddleware goes on with what it has; a route answers 500.
StatementFails(r) ==
    /\ "statement" \in Faults
    /\ \/ /\ req[r].at \in {"sent", "expire"}
          /\ Put(r, Gate(req[r], FALSE))
       \/ /\ req[r].at = "touch"
          /\ Put(r, Gate(req[r], TRUE))
       \/ /\ req[r].at \in {"mint", "rotate", "revoke"}
          /\ Put(r, Reply(req[r], "RECEIPT_FAILED"))
    /\ UNCHANGED <<sess, cookie, page, over>>

-----------------------------------------------------------------------------
(* The answers. *)

\* Mutant: getSession does not store the token again.
StoreSignInOnly(p, q) ==
    [p EXCEPT !.status = "signed-in", !.of = q.sid,
              !.token = IF q.kind = "load" THEN @ ELSE IF q.valid THEN q.sid ELSE Stale]

\* getSession and signIn store the token of the answer, the provider its specialist.
Store(p, q) ==
    [p EXCEPT !.status = "signed-in", !.of = q.sid,
              !.token = IF q.valid THEN q.sid ELSE Stale]

\* The page of a load that was refused or failed shows nobody; a token it got meanwhile
\* from a sign-in stays.
Nobody(p) == [p EXCEPT !.status = "signed-out", !.of = None]

Answered(r) == req[r].at = "answer"

Served(r) ==
    /\ Answered(r)
    /\ req[r].code = "OK"
    /\ page' = [page EXCEPT ![req[r].page] =
                 CASE req[r].kind = "load" -> Store(@, req[r])
                   [] req[r].kind = "sign_in" -> [Store(@, req[r]) EXCEPT !.at = "app"]
                   [] req[r].kind = "sign_out" ->
                        [Nobody(@) EXCEPT !.token = None, !.at = "sign-in"]
                   [] OTHER -> @]
    /\ cookie' = CASE req[r].kind = "sign_in" -> req[r].sid
                   [] req[r].kind = "sign_out" -> None
                   [] OTHER -> cookie
    /\ Put(r, NoRequest)
    /\ UNCHANGED <<sess, over>>

\* A 401 on the way is a new document, /sign-in; the answer's slot serves its load.
Redirected(r) ==
    /\ Answered(r)
    /\ req[r].code = "UNAUTHENTICATED"
    /\ req[r].kind # "load"
    /\ LET t == req[r].page
       IN /\ page' = [page EXCEPT ![t] = Loading("sign-in")]
          /\ req' = [q \in Requests |->
                       IF q = r THEN Ask("load", t)
                       ELSE IF req[q].page = t THEN Abandon(req[q]) ELSE req[q]]
    /\ UNCHANGED <<sess, cookie, over>>

\* Any other refusal is shown and changes nothing, and a load that failed means nobody.
Refused(r) ==
    /\ Answered(r)
    /\ req[r].code # "OK"
    /\ req[r].code = "UNAUTHENTICATED" => req[r].kind = "load"
    /\ page' = IF req[r].kind = "load" THEN [page EXCEPT ![req[r].page] = Nobody(@)] ELSE page
    /\ Put(r, NoRequest)
    /\ UNCHANGED <<sess, cookie, over>>

\* The request or its answer is lost, and the page sees a NETWORK error.
NetworkFails(r) ==
    /\ "network" \in Faults
    /\ req[r].at \in {"sent", "answer"}
    /\ req[r].page # None
    /\ page' = IF req[r].kind = "load" THEN [page EXCEPT ![req[r].page] = Nobody(@)] ELSE page
    /\ Put(r, NoRequest)
    /\ UNCHANGED <<sess, cookie, over>>

-----------------------------------------------------------------------------
\* Mutant: it counts on.
KeepCounting(n, limit) == n + 1

\* A count of time up to what the limit tells apart.
OneMore(n, limit) == IF n > limit THEN n ELSE n + 1

\* A unit of time passes.
Tick ==
    /\ sess' = [s \in Sessions |->
                  IF sess[s].used /\ sess[s].revoked = "no"
                  THEN [sess[s] EXCEPT
                          !.age = OneMore(@, Absolute),
                          !.idle = IF sess[s].age >= Absolute THEN 0
                                   ELSE OneMore(@, IdleLimit)]
                  ELSE sess[s]]
    /\ UNCHANGED <<cookie, page, req, over>>

Serve(r) ==
    \/ Resolve(r) \/ Expire(r) \/ Touch(r) \/ Rotate(r) \/ SignOut(r)
    \/ \E s \in Sessions : Mint(r, s)

Deliver(r) == Served(r) \/ Redirected(r) \/ Refused(r)

Next ==
    \/ \E r \in Requests, t \in Tabs :
          \/ \E at \in {"sign-in", "app"} : Load(r, t, at)
          \/ SubmitSignIn(r, t)
          \/ \E kind \in Writes : Use(r, t, kind)
    \/ \E r \in Requests : Serve(r) \/ Deliver(r) \/ StatementFails(r) \/ NetworkFails(r)
    \/ Tick

Spec == Init /\ [][Next]_vars

-----------------------------------------------------------------------------
TypeOK ==
    /\ sess \in [Sessions -> Row]
    /\ cookie \in Some(Sessions)
    /\ page \in [Tabs -> Page]
    /\ req \in [Requests -> Request]
    /\ over \subseteq Sessions

\* The row keeps what happened first: of a sign-out and the expiries that race it, only
\* one is recorded (revokeSession).
FirstReasonStands ==
    [][\A s \in Sessions : sess[s].revoked # "no" => sess'[s].revoked = sess[s].revoked]_vars

\* Once a request has recorded that a session has expired, or has signed out of it, no
\* request that looks the session up later gets through, whatever slow requests that were
\* let in before still do to the row (session.middleware.ts).
EndedForGood ==
    [][\A r \in Requests : req[r].at = "sent" /\ req[r].sid \in over =>
          /\ req'[r].at \notin {"touch", "rotate", "revoke"}
          /\ req'[r].kind = "work" => req'[r].code # "OK"]_vars

\* What a page changes, it changes in the session whose specialist it shows, even when
\* another page has signed in meanwhile and the cookie is no longer the page's own.
WritesUnderShownName ==
    \A r \in Requests :
        req[r].kind \in Writes /\ (req[r].at = "revoke" \/ req[r].code = "OK") =>
            req[r].shown # "other"

\* The token that a page holds verifies its next request, unless the token has been
\* replaced since (routes/session.ts, rotate-on-GET and its client half).
PageCanWrite ==
    \A t \in Tabs :
        page[t].status = "signed-in" /\ page[t].of = cookie /\ page[t].token # Stale =>
            page[t].token = cookie

\* What is written about two pages (F12, acceptance 7: the second decision is answered
\* with the already-decided alert): a page of the browser's own session is answered, and
\* its token is not refused.
SecondPageServed ==
    \A r \in Requests :
        req[r].kind = "work" /\ req[r].shown = "own" => req[r].code # "CSRF_INVALID"
=============================================================================
