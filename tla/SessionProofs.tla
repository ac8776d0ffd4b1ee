--------------------------- MODULE SessionProofs ---------------------------
(***************************************************************************)
(* Proofs about Session, for any number of pages, requests and sessions    *)
(* and any limits.  The inductive invariant says what the properties rest  *)
(* on: a page holds a token of the session it shows, a write that carries  *)
(* the newest token was sent by a page that did not show somebody else,    *)
(* and what a request has recorded as ended is revoked in its row.         *)
(***************************************************************************)
EXTENDS Session, TLAPS

PageSound(p) ==
    /\ p.of # None /\ p.token \in Sessions => p.token = p.of
    /\ p.status = "signed-in" => p.of # None /\ p.token # None

RequestSound(q) ==
    /\ q.at = "mint" => q.kind = "sign_in"
    /\ q.at = "rotate" => q.kind = "load"
    /\ q.at = "revoke" => q.kind = "sign_out"
    /\ q.at \in {"expire", "touch", "rotate", "revoke"} => q.sid # None
    /\ q.at = "answer" /\ q.code = "OK" /\ q.kind \in {"load", "sign_in"} => q.sid # None
    /\ q.at = "answer" => q.page # None
    /\ q.at # "answer" => q.code = "none"
    /\ q.kind \in Writes /\ (q.valid \/ q.at = "revoke" \/ q.code = "OK") => q.shown # "other"

PagesSound    == \A t \in Tabs : PageSound(page[t])
RequestsSound == \A r \in Requests : RequestSound(req[r])
EndsRecorded  == \A s \in over : sess[s].revoked # "no"

IInv == TypeOK /\ PagesSound /\ RequestsSound /\ EndsRecorded

-----------------------------------------------------------------------------
(* The operators. *)

\* No request at all is sound.
LEMMA NoRequestSound == NoRequest \in Request /\ RequestSound(NoRequest)
  BY DEF NoRequest, Request, RequestSound, Kinds, Some, Codes, Writes

\* A page sends a token only with the name it belongs to (client.ts: request).
LEMMA AskSound ==
    ASSUME IInv, NEW kind \in Kinds, NEW t \in Tabs
    PROVE  Ask(kind, t) \in Request /\ RequestSound(Ask(kind, t))
<1> DEFINE q == [NoRequest EXCEPT !.kind = kind, !.page = t, !.sid = cookie, !.at = "sent"]
           shown == CASE page[t].of = None -> "nobody"
                      [] page[t].of = cookie -> "own"
                      [] OTHER -> "other"
           valid == cookie # None /\ page[t].token = cookie
<1>1. /\ page[t].of \in Some(Sessions) /\ cookie \in Some(Sessions)
      /\ PageSound(page[t])
  BY DEF IInv, TypeOK, Page, PagesSound
<1>2. /\ q \in Request /\ q.kind = kind /\ q.at = "sent" /\ q.code = "none"
      /\ q.shown = "nobody" /\ ~q.valid
  BY <1>1, NoRequestSound DEF NoRequest, Request, Some
<1>3. shown \in {"nobody", "own", "other"}
  OBVIOUS
<1>4. valid => shown # "other"
  BY <1>1 DEF PageSound, Some
<1>5. Ask(kind, t) = IF kind \in Writes THEN [q EXCEPT !.shown = shown, !.valid = valid] ELSE q
  BY DEF Ask
<1> HIDE DEF shown, valid
<1>6. valid \in BOOLEAN
  BY DEF valid
<1> HIDE DEF q
<1>7. CASE kind \in Writes
  <2>1. Ask(kind, t) = [q EXCEPT !.shown = shown, !.valid = valid]
    BY <1>5, <1>7
  <2> QED
    BY <1>2, <1>3, <1>4, <1>6, <2>1 DEF Request, RequestSound
<1>8. CASE kind \notin Writes
  BY <1>2, <1>5, <1>8 DEF RequestSound
<1> QED
  BY <1>7, <1>8

\* An answer is sound: an OK to a write when the write was.
LEMMA ReplySound ==
    ASSUME NEW q \in Request, NEW code \in Codes \ {"none"},
           code = "OK" => q.kind \in Writes /\ q.shown # "other"
    PROVE  Reply(q, code) \in Request /\ RequestSound(Reply(q, code))
<1>1. CASE q.page = None
  BY <1>1, NoRequestSound DEF Reply
<1>2. CASE q.page # None
  <2>1. PICK shown \in {"nobody", q.shown} :
           Reply(q, code) = [kind |-> q.kind, page |-> q.page, shown |-> shown, sid |-> None,
                             valid |-> FALSE, at |-> "answer", code |-> code]
    BY <1>2 DEF Reply, NoRequest
  <2> QED
    BY <1>2, <2>1 DEF Request, RequestSound, Some, Writes, Codes
<1> QED
  BY <1>1, <1>2

\* The answer to a sign-in or a load.
LEMMA ReplySessionSound ==
    ASSUME NEW q \in Request, NEW s \in Sessions, q.kind \in {"load", "sign_in"}
    PROVE  ReplySession(q, s) \in Request /\ RequestSound(ReplySession(q, s))
<1>1. CASE q.page = None
  BY <1>1, NoRequestSound DEF ReplySession
<1>2. CASE q.page # None
  <2>1. ReplySession(q, s) = [kind |-> q.kind, page |-> q.page, shown |-> q.shown, sid |-> s,
                              valid |-> TRUE, at |-> "answer", code |-> "OK"]
    BY <1>2 DEF ReplySession, Reply, NoRequest
  <2> QED
    BY <1>2, <2>1, SessionAssumption DEF Request, RequestSound, Some, Writes, Codes
<1> QED
  BY <1>1, <1>2

\* A request that passes the gate is as sound as it was, and one without a principal gets
\* no further than the sign-in (requireApiAuth, csrfMiddleware).
LEMMA GateSound ==
    ASSUME NEW q \in Request, NEW known \in BOOLEAN, RequestSound(q), q.at # "answer",
           known => q.sid # None
    PROVE  /\ Gate(q, known) \in Request
           /\ RequestSound(Gate(q, known))
           /\ ~known => /\ Gate(q, known).at \notin {"touch", "rotate", "revoke"}
                        /\ Gate(q, known).code # "OK"
<1>0. /\ q.kind \in Kinds /\ q.code = "none" /\ q.valid \in BOOLEAN
      /\ {"UNAUTHENTICATED", "CSRF_INVALID", "OK"} \subseteq Codes \ {"none"}
  BY DEF Request, RequestSound, Codes
<1>1. CASE q.kind = "sign_in"
  <2>1. Gate(q, known) = [q EXCEPT !.at = "mint", !.sid = None]
    BY <1>1 DEF Gate
  <2> QED
    BY <1>0, <1>1, <2>1 DEF Request, RequestSound, Some, Writes
<1>2. CASE q.kind # "sign_in" /\ ~known
  <2>1. Gate(q, known) = Reply(q, "UNAUTHENTICATED")
    BY <1>2 DEF Gate
  <2>2. Reply(q, "UNAUTHENTICATED").at \in {"free", "answer"}
        /\ Reply(q, "UNAUTHENTICATED").code # "OK"
    BY DEF Reply, NoRequest
  <2> QED
    BY <1>0, <1>2, <2>1, <2>2, ReplySound
<1>3. CASE q.kind # "sign_in" /\ known
  <2>1. Gate(q, known) = CheckCsrf(q)
    BY <1>3 DEF Gate
  <2>2. CASE q.kind = "load"
    <3>1. CheckCsrf(q) = [q EXCEPT !.at = "rotate"]
      BY <2>2 DEF CheckCsrf, Writes
    <3>2. /\ CheckCsrf(q) \in Request /\ CheckCsrf(q).kind = "load"
          /\ CheckCsrf(q).at = "rotate" /\ CheckCsrf(q).code = "none"
          /\ CheckCsrf(q).sid = q.sid /\ CheckCsrf(q).page = q.page
      BY <1>0, <2>2, <3>1 DEF Request
    <3> QED
      BY <1>0, <1>3, <2>1, <2>2, <3>2 DEF RequestSound, Writes
  <2>3. CASE q.kind \in Writes /\ ~q.valid
    <3>1. CheckCsrf(q) = Reply(q, "CSRF_INVALID")
      BY <2>3 DEF CheckCsrf, Writes
    <3> QED
      BY <1>0, <1>3, <2>1, <3>1, ReplySound
  <2>4. CASE q.kind = "work" /\ q.valid
    <3>1. CheckCsrf(q) = Reply(q, "OK")
      BY <2>4 DEF CheckCsrf, Writes
    <3>2. q.kind \in Writes /\ q.shown # "other"
      BY <2>4 DEF RequestSound, Writes
    <3>3. Reply(q, "OK") \in Request /\ RequestSound(Reply(q, "OK"))
      BY <1>0, <3>2, ReplySound
    <3> QED
      BY <1>3, <2>1, <3>1, <3>3
  <2>5. CASE q.kind = "sign_out" /\ q.valid
    <3>1. CheckCsrf(q) = [q EXCEPT !.at = "revoke", !.valid = FALSE]
      BY <2>5 DEF CheckCsrf, Writes
    <3>2. /\ CheckCsrf(q) \in Request /\ CheckCsrf(q).kind = q.kind
          /\ CheckCsrf(q).at = "revoke" /\ ~CheckCsrf(q).valid
          /\ CheckCsrf(q).code = "none"
          /\ CheckCsrf(q).sid = q.sid /\ CheckCsrf(q).shown = q.shown
      BY <1>0, <3>1 DEF Request
    <3> QED
      BY <1>0, <1>3, <2>1, <2>5, <3>2 DEF RequestSound, Writes
  <2> QED
    BY <1>0, <1>3, <2>2, <2>3, <2>4, <2>5 DEF Kinds, Writes
<1> QED
  BY <1>1, <1>2, <1>3

\* Nobody waits any more: what the request does on the server is the same.
LEMMA AbandonSound ==
    ASSUME NEW q \in Request, RequestSound(q)
    PROVE  /\ Abandon(q) \in Request /\ RequestSound(Abandon(q))
           /\ q.at # "answer" => Abandon(q).at = q.at /\ Abandon(q).code = q.code
  BY NoRequestSound DEF Abandon, Request, RequestSound, Some

-----------------------------------------------------------------------------
(* The steps. *)

\* The browser opens on pages that are signed out.
LEMMA InitSound == Init => IInv
<1> SUFFICES ASSUME Init PROVE IInv
  OBVIOUS
<1>1. sess \in [Sessions -> Row] /\ cookie \in Some(Sessions) /\ over = {}
  BY SessionAssumption DEF Init, NoRow, Row, Some
<1>2. \A t \in Tabs : page[t] \in Page /\ PageSound(page[t])
  <2> TAKE t \in Tabs
  <2>1. page[t] = [at |-> "sign-in", status |-> "signed-out", of |-> None, token |-> None]
    BY DEF Init, Loading
  <2> QED
    BY <2>1 DEF Page, PageSound, Some, CsrfToken
<1>3. \A r \in Requests : req[r] = NoRequest
  BY DEF Init
<1>4. page \in [Tabs -> Page] /\ req \in [Requests -> Request]
  BY <1>2, NoRequestSound DEF Init
<1> QED
  BY <1>1, <1>2, <1>3, <1>4, NoRequestSound
  DEF IInv, TypeOK, PagesSound, RequestsSound, EndsRecorded

\* A step of one request that leaves the rows and the pages alone.
LEMMA PutSound ==
    ASSUME IInv, NEW r \in Requests, NEW q \in Request, RequestSound(q), Put(r, q),
           UNCHANGED <<sess, cookie, page, over>>
    PROVE  IInv'
<1>1. req' \in [Requests -> Request] /\ \A x \in Requests : RequestSound(req'[x])
  BY DEF IInv, TypeOK, RequestsSound, Put
<1> QED
  BY <1>1 DEF IInv, TypeOK, PagesSound, RequestsSound, EndsRecorded

\* A step of a request that changes the rows, and what is recorded of them.
LEMMA RowSound ==
    ASSUME IInv, NEW r \in Requests, NEW q \in Request, RequestSound(q), Put(r, q),
           sess' \in [Sessions -> Row],
           \A s \in Sessions : sess[s].revoked # "no" => sess'[s].revoked # "no",
           over' \subseteq Sessions,
           \A s \in over' \ over : sess'[s].revoked # "no",
           UNCHANGED <<cookie, page>>
    PROVE  IInv'
<1>1. req' \in [Requests -> Request] /\ \A x \in Requests : RequestSound(req'[x])
  BY DEF IInv, TypeOK, RequestsSound, Put
<1>2. \A s \in over' : sess'[s].revoked # "no"
  BY DEF IInv, TypeOK, EndsRecorded
<1> QED
  BY <1>1, <1>2 DEF IInv, TypeOK, PagesSound, RequestsSound, EndsRecorded

\* A step that gives one page a new state and changes requests.
LEMMA PagesStepSound ==
    ASSUME IInv, page' \in [Tabs -> Page], \A t \in Tabs : PageSound(page'[t]),
           req' \in [Requests -> Request], \A r \in Requests : RequestSound(req'[r]),
           cookie' \in Some(Sessions), UNCHANGED <<sess, over>>
    PROVE  IInv'
  BY DEF IInv, TypeOK, PagesSound, RequestsSound, EndsRecorded

\* A page that is loading shows nobody and has no token.
LEMMA LoadingSound ==
    ASSUME NEW at \in {"sign-in", "app"}
    PROVE  Loading(at) \in Page /\ PageSound(Loading(at))
  BY SessionAssumption DEF Loading, Page, PageSound, Some, CsrfToken

\* Revoking a row leaves it revoked, for the first reason (revokeSession).
LEMMA RevokeFact ==
    ASSUME IInv, NEW s \in Sessions, NEW reason \in {"SIGNED_OUT", "EXPIRED"}
    PROVE  /\ Revoke(s, reason) \in [Sessions -> Row]
           /\ Revoke(s, reason)[s].revoked # "no"
           /\ \A x \in Sessions : sess[x].revoked # "no" =>
                 Revoke(s, reason)[x].revoked = sess[x].revoked
<1>0. NoRow \in Row
  BY SessionAssumption DEF NoRow, Row
<1>1. [NoRow EXCEPT !.used = TRUE, !.revoked = reason] \in Row
      /\ [NoRow EXCEPT !.used = TRUE, !.revoked = reason].revoked = reason
  BY <1>0 DEF Row
<1> QED
  BY <1>1 DEF IInv, TypeOK, Revoke

-----------------------------------------------------------------------------
(* One lemma per action, or per group of actions of one kind. *)

\* A document is loaded (SessionProvider.tsx).
LEMMA LoadSound ==
    ASSUME IInv, NEW r \in Requests, NEW t \in Tabs, NEW at \in {"sign-in", "app"},
           Load(r, t, at)
    PROVE  IInv'
<1>1. /\ page' \in [Tabs -> Page]
      /\ \A x \in Tabs : PageSound(page'[x])
  BY LoadingSound DEF Load, IInv, TypeOK, PagesSound
<1>2. Ask("load", t) \in Request /\ RequestSound(Ask("load", t))
  BY AskSound DEF Kinds
<1>3. \A x \in Requests : req'[x] \in Request /\ RequestSound(req'[x])
  BY <1>2, AbandonSound DEF Load, IInv, TypeOK, RequestsSound
<1> QED
  BY <1>1, <1>3, PagesStepSound DEF Load, IInv, TypeOK

\* A page sends a request.
LEMMA SendSound ==
    ASSUME IInv, NEW r \in Requests, NEW t \in Tabs, NEW kind \in Kinds, Send(r, kind, t),
           UNCHANGED <<sess, cookie, page, over>>
    PROVE  IInv'
  BY AskSound, PutSound DEF Send, Put

\* A request is resolved (session.middleware.ts).
LEMMA ResolveSound ==
    ASSUME IInv, NEW r \in Requests, Resolve(r)
    PROVE  IInv'
<1> DEFINE q == req[r]
<1>1. /\ q \in Request /\ RequestSound(q) /\ q.at = "sent"
      /\ UNCHANGED <<sess, cookie, page, over>>
  BY DEF IInv, TypeOK, RequestsSound, Resolve
<1>2. /\ Gate(q, FALSE) \in Request /\ RequestSound(Gate(q, FALSE))
      /\ q.sid # None => Gate(q, TRUE) \in Request /\ RequestSound(Gate(q, TRUE))
  BY <1>1, GateSound
<1>3. q.sid # None =>
         /\ [q EXCEPT !.at = "expire", !.valid = FALSE] \in Request
         /\ RequestSound([q EXCEPT !.at = "expire", !.valid = FALSE])
         /\ [q EXCEPT !.at = "touch"] \in Request
         /\ RequestSound([q EXCEPT !.at = "touch"])
  BY <1>1 DEF Request, RequestSound
<1>4. \/ Put(r, Gate(q, FALSE))
      \/ q.sid # None /\ Put(r, Gate(q, TRUE))
      \/ q.sid # None /\ Put(r, [q EXCEPT !.at = "expire", !.valid = FALSE])
      \/ q.sid # None /\ Put(r, [q EXCEPT !.at = "touch"])
  BY DEF Resolve
<1> QED
  BY <1>1, <1>2, <1>3, <1>4, PutSound

\* An expiry is recorded.
LEMMA ExpireSound ==
    ASSUME IInv, NEW r \in Requests, Expire(r)
    PROVE  IInv'
<1>1. /\ req[r] \in Request /\ RequestSound(req[r]) /\ req[r].at = "expire"
      /\ req[r].sid \in Sessions
  BY DEF IInv, TypeOK, RequestsSound, RequestSound, Expire, Request, Some
<1>2. Gate(req[r], FALSE) \in Request /\ RequestSound(Gate(req[r], FALSE))
  BY <1>1, GateSound
<1>3. /\ sess' = Revoke(req[r].sid, "EXPIRED") /\ over' = over \cup {req[r].sid}
      /\ Put(r, Gate(req[r], FALSE)) /\ UNCHANGED <<cookie, page>>
  BY DEF Expire
<1>4. /\ sess' \in [Sessions -> Row]
      /\ \A s \in Sessions : sess[s].revoked # "no" => sess'[s].revoked # "no"
      /\ \A s \in over' \ over : sess'[s].revoked # "no"
  BY <1>1, <1>3, RevokeFact
<1>5. over' \subseteq Sessions
  BY <1>1, <1>3 DEF IInv, TypeOK
<1> QED
  BY <1>2, <1>3, <1>4, <1>5, RowSound

\* A sign-out.
LEMMA SignOutSound ==
    ASSUME IInv, NEW r \in Requests, SignOut(r)
    PROVE  IInv'
<1>1. /\ req[r] \in Request /\ RequestSound(req[r]) /\ req[r].at = "revoke"
      /\ req[r].sid \in Sessions
  BY DEF IInv, TypeOK, RequestsSound, RequestSound, SignOut, Request, Some
<1>2. Reply(req[r], "OK") \in Request /\ RequestSound(Reply(req[r], "OK"))
  BY <1>1, ReplySound DEF RequestSound, Codes, Writes
<1>3. /\ sess' = Revoke(req[r].sid, "SIGNED_OUT") /\ over' = over \cup {req[r].sid}
      /\ Put(r, Reply(req[r], "OK")) /\ UNCHANGED <<cookie, page>>
  BY DEF SignOut
<1>4. /\ sess' \in [Sessions -> Row]
      /\ \A s \in Sessions : sess[s].revoked # "no" => sess'[s].revoked # "no"
      /\ \A s \in over' \ over : sess'[s].revoked # "no"
  BY <1>1, <1>3, RevokeFact
<1>5. over' \subseteq Sessions
  BY <1>1, <1>3 DEF IInv, TypeOK
<1> QED
  BY <1>2, <1>3, <1>4, <1>5, RowSound

\* A touch, of a row that may have been revoked since.
LEMMA TouchSound ==
    ASSUME IInv, NEW r \in Requests, Touch(r)
    PROVE  IInv'
<1>1. /\ req[r] \in Request /\ RequestSound(req[r]) /\ req[r].at = "touch"
      /\ req[r].sid \in Sessions
  BY DEF IInv, TypeOK, RequestsSound, RequestSound, Touch, Request, Some
<1>2. Gate(req[r], TRUE) \in Request /\ RequestSound(Gate(req[r], TRUE))
  BY <1>1, GateSound DEF RequestSound
<1>3. /\ sess' = [sess EXCEPT ![req[r].sid].idle = 0]
      /\ Put(r, Gate(req[r], TRUE)) /\ UNCHANGED <<cookie, page, over>>
  BY DEF Touch
<1>4. /\ sess' \in [Sessions -> Row]
      /\ \A s \in Sessions : sess[s].revoked # "no" => sess'[s].revoked # "no"
  BY <1>1, <1>3, SessionAssumption DEF IInv, TypeOK, Row
<1> QED
  BY <1>2, <1>3, <1>4, RowSound DEF IInv, TypeOK

\* A new session.
LEMMA MintSound ==
    ASSUME IInv, NEW r \in Requests, NEW s \in Sessions, Mint(r, s)
    PROVE  IInv'
<1>1. req[r] \in Request /\ req[r].kind = "sign_in"
  BY DEF IInv, TypeOK, RequestsSound, RequestSound, Mint
<1>2. ReplySession(req[r], s) \in Request /\ RequestSound(ReplySession(req[r], s))
  BY <1>1, ReplySessionSound
<1>3. /\ sess' = [sess EXCEPT ![s].used = TRUE]
      /\ Put(r, ReplySession(req[r], s)) /\ UNCHANGED <<cookie, page, over>>
  BY DEF Mint
<1>4. /\ sess' \in [Sessions -> Row]
      /\ \A x \in Sessions : sess[x].revoked # "no" => sess'[x].revoked # "no"
  BY <1>3 DEF IInv, TypeOK, Row
<1> QED
  BY <1>2, <1>3, <1>4, RowSound DEF IInv, TypeOK

\* The token of a session is replaced: pages that hold it hold an old one now.
LEMMA RotateSound ==
    ASSUME IInv, NEW r \in Requests, Rotate(r)
    PROVE  IInv'
<1> DEFINE s == req[r].sid
<1>1. /\ req[r] \in Request /\ req[r].kind = "load" /\ s \in Sessions
  BY DEF IInv, TypeOK, RequestsSound, RequestSound, Rotate, Request, Some
<1>2. ReplySession(req[r], s) \in Request /\ RequestSound(ReplySession(req[r], s))
  BY <1>1, ReplySessionSound
<1>3. \A t \in Tabs : page'[t] \in Page /\ PageSound(page'[t])
  <2> TAKE t \in Tabs
  <2>1. page[t] \in Page /\ PageSound(page[t])
    BY DEF IInv, TypeOK, PagesSound
  <2>2. page'[t] = [page[t] EXCEPT !.token = IF @ = s THEN Stale ELSE @]
    BY DEF Rotate
  <2> QED
    BY <1>1, <2>1, <2>2, SessionAssumption DEF Page, PageSound, CsrfToken, Some
<1>4. \A q \in Requests : req'[q] \in Request /\ RequestSound(req'[q])
  <2> TAKE q \in Requests
  <2>1. CASE q = r
    BY <1>2, <2>1 DEF Rotate
  <2>2. CASE q # r
    <3>1. req[q] \in Request /\ RequestSound(req[q])
      BY DEF IInv, TypeOK, RequestsSound
    <3> DEFINE v == req[q].valid /\ ~(req[q].sid = s /\ req[q].at \in {"sent", "answer"})
    <3>2. req'[q] = [req[q] EXCEPT !.valid = v]
      BY <2>2, <3>1 DEF Rotate, Request
    <3>3. v \in BOOLEAN /\ (v => req[q].valid)
      OBVIOUS
    <3> HIDE DEF v
    <3> QED
      BY <3>1, <3>2, <3>3 DEF Request, RequestSound
  <2> QED
    BY <2>1, <2>2
<1> QED
  BY <1>3, <1>4, PagesStepSound DEF Rotate, IInv, TypeOK

\* A statement fails.
LEMMA StatementFailsSound ==
    ASSUME IInv, NEW r \in Requests, StatementFails(r)
    PROVE  IInv'
<1>1. /\ req[r] \in Request /\ RequestSound(req[r])
      /\ UNCHANGED <<sess, cookie, page, over>>
  BY DEF IInv, TypeOK, RequestsSound, StatementFails
<1>2. CASE req[r].at \in {"sent", "expire"} /\ Put(r, Gate(req[r], FALSE))
  BY <1>1, <1>2, GateSound, PutSound
<1>3. CASE req[r].at = "touch" /\ Put(r, Gate(req[r], TRUE))
  <2>1. req[r].sid # None
    BY <1>1, <1>3 DEF RequestSound
  <2> QED
    BY <1>1, <1>3, <2>1, GateSound, PutSound
<1>4. CASE Put(r, Reply(req[r], "RECEIPT_FAILED"))
  <2>1. "RECEIPT_FAILED" \in Codes \ {"none"}
    BY DEF Codes
  <2> QED
    BY <1>1, <1>4, <2>1, ReplySound, PutSound
<1> QED
  BY <1>2, <1>3, <1>4 DEF StatementFails

\* An answer that is served (getSession, signIn, signOut of client.ts).
LEMMA ServedSound ==
    ASSUME IInv, NEW r \in Requests, Served(r)
    PROVE  IInv'
<1> DEFINE q == req[r]
<1>1. /\ q \in Request /\ RequestSound(q) /\ q.at = "answer" /\ q.code = "OK"
      /\ UNCHANGED <<sess, over>>
  BY DEF IInv, TypeOK, RequestsSound, Served, Answered
<1>2. q.kind \in {"load", "sign_in"} => q.sid \in Sessions
  BY <1>1 DEF Request, RequestSound, Some
<1>3. cookie' \in Some(Sessions)
  BY <1>2 DEF Served, IInv, TypeOK, Some
<1>4. ASSUME NEW p \in Page, PageSound(p)
      PROVE  /\ q.kind \in {"load", "sign_in"} =>
                  Store(p, q) \in Page /\ PageSound(Store(p, q))
             /\ q.kind = "sign_in" =>
                  /\ [Store(p, q) EXCEPT !.at = "app"] \in Page
                  /\ PageSound([Store(p, q) EXCEPT !.at = "app"])
             /\ [Nobody(p) EXCEPT !.token = None, !.at = "sign-in"] \in Page
             /\ PageSound([Nobody(p) EXCEPT !.token = None, !.at = "sign-in"])
  <2>1. q.kind \in {"load", "sign_in"} => Store(p, q) \in Page /\ PageSound(Store(p, q))
    <3> HAVE q.kind \in {"load", "sign_in"}
    <3> DEFINE token == IF q.valid THEN q.sid ELSE Stale
    <3>1. token \in CsrfToken /\ token # None /\ (token \in Sessions => token = q.sid)
      BY <1>2, SessionAssumption DEF CsrfToken, Some
    <3>2. Store(p, q) = [p EXCEPT !.status = "signed-in", !.of = q.sid, !.token = token]
      BY DEF Store
    <3> HIDE DEF token
    <3> QED
      BY <1>2, <1>4, <3>1, <3>2, SessionAssumption DEF Page, PageSound, Some
  <2>2. q.kind = "sign_in" =>
          /\ [Store(p, q) EXCEPT !.at = "app"] \in Page
          /\ PageSound([Store(p, q) EXCEPT !.at = "app"])
    BY <2>1 DEF Page, PageSound
  <2>3. Nobody(p) \in Page /\ Nobody(p).of = None /\ Nobody(p).status = "signed-out"
    BY <1>4 DEF Nobody, Page, Some
  <2> QED
    BY <2>1, <2>2, <2>3, SessionAssumption DEF Page, PageSound, CsrfToken, Some
<1>5. \A t \in Tabs : page'[t] \in Page /\ PageSound(page'[t])
  <2> TAKE t \in Tabs
  <2>1. page[t] \in Page /\ PageSound(page[t])
    BY DEF IInv, TypeOK, PagesSound
  <2>2. \/ page'[t] = page[t]
        \/ q.kind = "load" /\ page'[t] = Store(page[t], q)
        \/ q.kind = "sign_in" /\ page'[t] = [Store(page[t], q) EXCEPT !.at = "app"]
        \/ page'[t] = [Nobody(page[t]) EXCEPT !.token = None, !.at = "sign-in"]
    BY DEF Served, IInv, TypeOK
  <2> QED
    BY <1>4, <2>1, <2>2
<1>6. req' \in [Requests -> Request] /\ \A x \in Requests : RequestSound(req'[x])
  BY NoRequestSound DEF Served, Put, IInv, TypeOK, RequestsSound
<1>7. page' \in [Tabs -> Page]
  BY <1>5 DEF Served, IInv, TypeOK
<1> QED
  BY <1>1, <1>3, <1>5, <1>6, <1>7, PagesStepSound

\* A 401 on the way is a new document.
LEMMA RedirectedSound ==
    ASSUME IInv, NEW r \in Requests, Redirected(r)
    PROVE  IInv'
<1> DEFINE t == req[r].page
<1>1. /\ page' = [page EXCEPT ![t] = Loading("sign-in")]
      /\ req' = [q \in Requests |->
                   IF q = r THEN Ask("load", t)
                   ELSE IF req[q].page = t THEN Abandon(req[q]) ELSE req[q]]
      /\ UNCHANGED <<sess, cookie, over>>
      /\ req[r] \in Request
  BY DEF Redirected, IInv, TypeOK
<1>2. t \in Tabs
  BY DEF IInv, RequestsSound, RequestSound, Redirected, Answered, TypeOK, Request, Some
<1>3. Ask("load", t) \in Request /\ RequestSound(Ask("load", t))
  BY <1>2, AskSound DEF Kinds
<1>4. \A q \in Requests : req'[q] \in Request /\ RequestSound(req'[q])
  BY <1>1, <1>3, AbandonSound DEF IInv, TypeOK, RequestsSound
<1>5. page' \in [Tabs -> Page] /\ \A x \in Tabs : PageSound(page'[x])
  BY <1>1, LoadingSound DEF IInv, TypeOK, PagesSound
<1> QED
  BY <1>1, <1>4, <1>5, PagesStepSound DEF IInv, TypeOK

\* A refusal, or a connection that is lost, as the page sees it.
LEMMA DroppedSound ==
    ASSUME IInv, NEW r \in Requests,
           page' = IF req[r].kind = "load"
                   THEN [page EXCEPT ![req[r].page] = Nobody(@)] ELSE page,
           Put(r, NoRequest), UNCHANGED <<sess, cookie, over>>
    PROVE  IInv'
<1>1. ASSUME NEW p \in Page, PageSound(p)
      PROVE  Nobody(p) \in Page /\ PageSound(Nobody(p))
  BY <1>1 DEF Nobody, Page, PageSound, Some
<1>2. page' \in [Tabs -> Page] /\ \A t \in Tabs : PageSound(page'[t])
  BY <1>1 DEF IInv, TypeOK, PagesSound
<1>3. req' \in [Requests -> Request] /\ \A x \in Requests : RequestSound(req'[x])
  BY NoRequestSound DEF Put, IInv, TypeOK, RequestsSound
<1> QED
  BY <1>2, <1>3, PagesStepSound DEF IInv, TypeOK

\* Time passes.
LEMMA TickSound ==
    ASSUME IInv, Tick
    PROVE  IInv'
<1>1. \A s \in Sessions : sess'[s] \in Row /\ sess'[s].revoked = sess[s].revoked
  <2> TAKE s \in Sessions
  <2>1. sess[s] \in Row
    BY DEF IInv, TypeOK
  <2> DEFINE age == OneMore(sess[s].age, Absolute)
             idle == IF sess[s].age >= Absolute THEN 0 ELSE OneMore(sess[s].idle, IdleLimit)
  <2>2. age \in 0 .. Absolute + 1 /\ idle \in 0 .. IdleLimit + 1
    BY <2>1, SessionAssumption DEF Row, OneMore
  <2>3. \/ sess'[s] = sess[s]
        \/ sess'[s] = [sess[s] EXCEPT !.age = age, !.idle = idle]
    BY DEF Tick
  <2> HIDE DEF age, idle
  <2> QED
    BY <2>1, <2>2, <2>3 DEF Row
<1>2. sess' \in [Sessions -> Row]
  BY <1>1 DEF Tick
<1> QED
  BY <1>1, <1>2 DEF Tick, IInv, TypeOK, PagesSound, RequestsSound, EndsRecorded

-----------------------------------------------------------------------------
(* The invariant and what follows from it. *)

\* Every step keeps the invariant.
LEMMA StepSound == IInv /\ [Next]_vars => IInv'
<1> SUFFICES ASSUME IInv, [Next]_vars PROVE IInv'
  OBVIOUS
<1>1. CASE UNCHANGED vars
  BY <1>1 DEF vars, IInv, TypeOK, PagesSound, RequestsSound, EndsRecorded
<1>2. ASSUME NEW r \in Requests, NEW t \in Tabs, NEW at \in {"sign-in", "app"}, Load(r, t, at)
      PROVE  IInv'
  BY <1>2, LoadSound
<1>3. ASSUME NEW r \in Requests, NEW t \in Tabs, SubmitSignIn(r, t)
      PROVE  IInv'
  BY <1>3, SendSound DEF SubmitSignIn, Kinds
<1>4. ASSUME NEW r \in Requests, NEW t \in Tabs, NEW kind \in Writes, Use(r, t, kind)
      PROVE  IInv'
  BY <1>4, SendSound DEF Use, Kinds, Writes
<1>5. ASSUME NEW r \in Requests, Serve(r)
      PROVE  IInv'
  BY <1>5, ResolveSound, ExpireSound, TouchSound, RotateSound, SignOutSound, MintSound DEF Serve
<1>6. ASSUME NEW r \in Requests, Refused(r) \/ NetworkFails(r)
      PROVE  IInv'
  BY <1>6, DroppedSound DEF Refused, NetworkFails
<1>7. ASSUME NEW r \in Requests, Served(r) \/ Redirected(r) \/ StatementFails(r)
      PROVE  IInv'
  BY <1>7, ServedSound, RedirectedSound, StatementFailsSound
<1>8. CASE Tick
  BY <1>8, TickSound
<1> QED
  BY <1>1, <1>2, <1>3, <1>4, <1>5, <1>6, <1>7, <1>8 DEF Next, Deliver

\* The invariant holds in every reachable state.
LEMMA Invariance == Spec => []IInv
<1> QED
  BY InitSound, StepSound, PTL DEF Spec

\* Rows, pages and requests are well typed for any number of them.
THEOREM SessionTypeCorrect == Spec => []TypeOK
<1>1. IInv => TypeOK
  BY DEF IInv
<1> QED
  BY <1>1, Invariance, PTL

\* What a page changes is changed in the session whose specialist it shows (the CSRF token
\* belongs to one session, and a page shows the session of its token).
THEOREM WritesAlwaysUnderShownName == Spec => []WritesUnderShownName
<1>1. IInv => WritesUnderShownName
  BY DEF IInv, RequestsSound, RequestSound, WritesUnderShownName
<1> QED
  BY <1>1, Invariance, PTL

\* A page of the browser's session holds its newest token or one that has been replaced
\* (the two halves of rotate-on-GET).
THEOREM PageCanAlwaysWrite == Spec => []PageCanWrite
<1>1. ASSUME IInv, NEW t \in Tabs, page[t].status = "signed-in", page[t].of = cookie,
             page[t].token # Stale
      PROVE  page[t].token = cookie
  BY <1>1 DEF IInv, TypeOK, Page, PagesSound, PageSound, CsrfToken, Some
<1>2. IInv => PageCanWrite
  BY <1>1 DEF PageCanWrite
<1> QED
  BY <1>2, Invariance, PTL

\* The reason for which a session has ended never changes (revokeSession).
THEOREM FirstReasonAlwaysStands == Spec => FirstReasonStands
<1> DEFINE Stands == \A s \in Sessions :
                        sess[s].revoked # "no" => sess'[s].revoked = sess[s].revoked
<1>1. ASSUME IInv, Next PROVE Stands
  <2> TAKE s \in Sessions
  <2> HAVE sess[s].revoked # "no"
  <2>1. ASSUME NEW r \in Requests, Expire(r) \/ SignOut(r)
        PROVE  sess'[s].revoked = sess[s].revoked
    <3>1. req[r].sid \in Sessions
      BY <1>1, <2>1 DEF IInv, TypeOK, RequestsSound, RequestSound, Expire, SignOut, Request, Some
    <3>2. \/ sess' = Revoke(req[r].sid, "EXPIRED")
          \/ sess' = Revoke(req[r].sid, "SIGNED_OUT")
      BY <2>1 DEF Expire, SignOut
    <3>3. \A reason \in {"SIGNED_OUT", "EXPIRED"} :
             Revoke(req[r].sid, reason)[s].revoked = sess[s].revoked
      BY <1>1, <3>1, RevokeFact
    <3> QED
      BY <3>2, <3>3
  <2>2. ASSUME NEW r \in Requests, Touch(r) \/ \E x \in Sessions : Mint(r, x)
        PROVE  sess'[s].revoked = sess[s].revoked
    <3>1. sess[s] \in Row /\ sess \in [Sessions -> Row]
      BY <1>1 DEF IInv, TypeOK
    <3>2. CASE Touch(r)
      <4>1. \/ sess'[s] = sess[s]
            \/ sess'[s] = [sess[s] EXCEPT !.idle = 0]
        BY <3>1, <3>2 DEF Touch
      <4> QED
        BY <3>1, <4>1 DEF Row
    <3>3. ASSUME NEW x \in Sessions, Mint(r, x)
          PROVE  sess'[s].revoked = sess[s].revoked
      <4>1. \/ sess'[s] = sess[s]
            \/ sess'[s] = [sess[s] EXCEPT !.used = TRUE]
        BY <3>1, <3>3 DEF Mint
      <4> QED
        BY <3>1, <4>1 DEF Row
    <3> QED
      BY <2>2, <3>2, <3>3
  <2>3. CASE Tick
    BY <2>3 DEF Tick
  <2>4. CASE UNCHANGED sess
    BY <2>4
  <2>5. \/ UNCHANGED sess \/ Tick
        \/ \E r \in Requests : \/ Expire(r) \/ SignOut(r) \/ Touch(r)
                               \/ \E x \in Sessions : Mint(r, x)
    BY <1>1 DEF Next, Load, SubmitSignIn, Use, Serve, Resolve, Rotate, Deliver, Served,
                Redirected, Refused, StatementFails, NetworkFails
  <2> QED
    BY <2>1, <2>2, <2>3, <2>4, <2>5
<1>2. IInv /\ [Next]_vars => [Stands]_vars
  BY <1>1
<1>3. Spec => [][Stands]_vars
  BY <1>2, Invariance, PTL DEF Spec
<1> QED
  BY <1>3 DEF FirstReasonStands

\* A request that is under way when somebody else takes a step stays as it is, except that
\* nobody may wait for it any more or its token may be an old one.
LEMMA OthersKeep ==
    ASSUME IInv, NEW r \in Requests, req[r].at = "sent",
           \/ \E x \in Requests, t \in Tabs :
                 \/ \E at \in {"sign-in", "app"} : Load(x, t, at)
                 \/ \E kind \in Kinds : Send(x, kind, t)
           \/ \E x \in Requests \ {r} :
                 \/ Rotate(x) \/ Redirected(x)
                 \/ \E q : Put(x, q)
    PROVE  req'[r].at = "sent" /\ req'[r].code = "none"
<1>1. req[r] \in Request /\ RequestSound(req[r]) /\ req[r].code = "none"
  BY DEF IInv, TypeOK, RequestsSound, RequestSound
<1>2. Abandon(req[r]).at = "sent" /\ Abandon(req[r]).code = "none"
  BY <1>1 DEF Abandon, Request
<1>3. ASSUME NEW x \in Requests, NEW t \in Tabs,
             \/ \E at \in {"sign-in", "app"} : Load(x, t, at)
             \/ \E kind \in Kinds : Send(x, kind, t)
      PROVE  req'[r].at = "sent" /\ req'[r].code = "none"
  <2>1. x # r
    BY <1>3 DEF Load, Send
  <2> QED
    BY <1>1, <1>2, <1>3, <2>1 DEF Load, Send, IInv, TypeOK
<1>4. ASSUME NEW x \in Requests \ {r}, Rotate(x)
      PROVE  req'[r].at = "sent" /\ req'[r].code = "none"
  BY <1>1, <1>4 DEF Rotate, Request
<1>5. ASSUME NEW x \in Requests \ {r}, Redirected(x)
      PROVE  req'[r].at = "sent" /\ req'[r].code = "none"
  BY <1>1, <1>2, <1>5 DEF Redirected
<1>6. ASSUME NEW x \in Requests \ {r}, NEW q, Put(x, q)
      PROVE  req'[r].at = "sent" /\ req'[r].code = "none"
  BY <1>1, <1>6 DEF Put, IInv, TypeOK
<1> QED
  BY <1>3, <1>4, <1>5, <1>6

\* Once the end of a session has been recorded, no request that looks it up later gets
\* through (session.middleware.ts).
THEOREM EndedSessionsStayEnded == Spec => EndedForGood
<1> DEFINE Kept(r) == req[r].at = "sent" /\ req[r].sid \in over =>
                         /\ req'[r].at \notin {"touch", "rotate", "revoke"}
                         /\ req'[r].kind = "work" => req'[r].code # "OK"
<1>1. ASSUME IInv, Next, NEW r \in Requests, req[r].at = "sent", req[r].sid \in over
      PROVE  /\ req'[r].at \notin {"touch", "rotate", "revoke"}
             /\ req'[r].kind = "work" => req'[r].code # "OK"
  <2>1. /\ req[r] \in Request /\ RequestSound(req[r]) /\ req[r].sid \in Sessions
        /\ sess[req[r].sid].revoked # "no"
    BY <1>1 DEF IInv, TypeOK, RequestsSound, EndsRecorded
  <2>2. /\ Gate(req[r], FALSE).at \notin {"touch", "rotate", "revoke"}
        /\ Gate(req[r], FALSE).code # "OK"
    BY <1>1, <2>1, GateSound
  <2>3. CASE Resolve(r) \/ StatementFails(r)
    <3>1. Put(r, Gate(req[r], FALSE))
      BY <1>1, <2>1, <2>3, SessionAssumption DEF Resolve, StatementFails
    <3> QED
      BY <1>1, <2>2, <3>1 DEF Put, IInv, TypeOK
  <2>4. CASE NetworkFails(r)
    BY <1>1, <2>4 DEF NetworkFails, Put, NoRequest, IInv, TypeOK
  <2>5. CASE UNCHANGED req
    BY <1>1, <2>1, <2>5 DEF RequestSound
  <2>6. \/ Resolve(r) \/ StatementFails(r) \/ NetworkFails(r) \/ UNCHANGED req
        \/ \E x \in Requests, t \in Tabs :
              \/ \E at \in {"sign-in", "app"} : Load(x, t, at)
              \/ \E kind \in Kinds : Send(x, kind, t)
        \/ \E x \in Requests \ {r} :
              \/ Rotate(x) \/ Redirected(x)
              \/ \E q : Put(x, q)
    <3>1. ASSUME NEW x \in Requests, Serve(x) \/ Deliver(x) \/ StatementFails(x) \/ NetworkFails(x)
          PROVE  \/ x = r /\ (Resolve(r) \/ StatementFails(r) \/ NetworkFails(r))
                 \/ x # r /\ (Rotate(x) \/ Redirected(x) \/ \E q : Put(x, q))
      <4>1. CASE x = r
        BY <1>1, <3>1, <4>1 DEF Serve, Deliver, Expire, Touch, Rotate, SignOut, Mint, Served,
                                Redirected, Refused, Answered
      <4>2. CASE x # r
        BY <3>1, <4>2 DEF Serve, Deliver, Resolve, Expire, Touch, SignOut, Mint, Served,
                          Refused, StatementFails, NetworkFails
      <4> QED
        BY <4>1, <4>2
    <3>2. ASSUME NEW x \in Requests, NEW t \in Tabs,
                 SubmitSignIn(x, t) \/ \E kind \in Writes : Use(x, t, kind)
          PROVE  \E kind \in Kinds : Send(x, kind, t)
      BY <3>2 DEF SubmitSignIn, Use, Kinds, Writes
    <3>3. CASE Tick
      BY <3>3 DEF Tick
    <3> QED
      BY <1>1, <3>1, <3>2, <3>3 DEF Next
  <2> QED
    BY <1>1, <2>3, <2>4, <2>5, <2>6, OthersKeep
<1>2. ASSUME IInv, [Next]_vars PROVE [\A r \in Requests : Kept(r)]_vars
  BY <1>1, <1>2
<1>3. Spec => [][\A r \in Requests : Kept(r)]_vars
  BY <1>2, Invariance, PTL DEF Spec
<1> QED
  BY <1>3 DEF EndedForGood

=============================================================================
