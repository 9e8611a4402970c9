--------------------------------- MODULE OAuth ---------------------------------
(***************************************************************************)
(* The OAuth server of lazyoauth (oauth.go) on its store (store.go), which  *)
(* keeps clients, authorization codes and refresh-token families in memory *)
(* under one mutex and, as a disk store, writes the whole of it to one file *)
(* in place before a change is answered.  Requests are handled              *)
(* concurrently; a write may fail and leave the file as it was, torn or     *)
(* empty; the process may crash at any moment, in the middle of a write     *)
(* too, and load the file again.  Identifiers are drawn by randomToken and  *)
(* never repeat: they are numbered in the order they were drawn, which is   *)
(* also the order they expire in.  A request that is refused without        *)
(* touching the store leaves no trace and has no action.                    *)
(***************************************************************************)
EXTENDS Integers

CONSTANTS Request,      \* the requests handled at the same time
          Client,       \* the client identifiers
          NoClient,     \* no client
          NoRequest,    \* nobody holds the mutex
          MaxCode,      \* bound: authorization codes drawn
          MaxFamily,    \* bound: families drawn
          MaxToken,     \* bound: refresh-token identifiers drawn
          MaxFailures,  \* bound: writes that fail
          MaxCrashes    \* bound: crashes

ASSUME OAuthAssumption ==
    /\ NoClient \notin Client /\ NoRequest \notin Request
    /\ MaxCode \in Nat /\ MaxFamily \in Nat /\ MaxToken \in Nat
    /\ MaxFailures \in Nat /\ MaxCrashes \in Nat

VARIABLES
    mem,        \* the maps of MemoryStore
    disk,       \* the last complete content of the file
    file,       \* what the file is now: that content, a torn write, or nothing
    mu,         \* the request that holds MemoryStore.mu
    req,        \* per request, its handler's progress
    server,     \* "up", "down", or "failed" when NewDiskStore returned an error
    drawn,      \* how many codes, families and tokens were drawn
    expired,    \* the newest code and the newest token that have expired
    sent,       \* codes and tokens that have reached a user agent
    faults,     \* failed writes and crashes so far
    standing,   \* history: per family, the token in force by the last answer
    doubt,      \* history: families with a call that failed, or forgotten
    known,      \* history: clients whose registration was answered and kept
    exchanged   \* history: per code, how often TakeAuthCode handed it out

storeVars == <<mem, disk, file, mu>>
historyVars == <<standing, doubt, known, exchanged>>
vars == <<mem, disk, file, mu, req, server, drawn, expired, sent, faults,
          standing, doubt, known, exchanged>>

Code == 1..MaxCode
Family == 1..MaxFamily
Token == 1..MaxToken
None == 0
Revoked == -1

FamilyRecord == [current: Token \cup {None}, revoked: BOOLEAN]
Absent == [current |-> None, revoked |-> FALSE]
Content == [clients: SUBSET Client, legacy: SUBSET Client,
            codes: [Code -> Client \cup {NoClient}],
            families: [Family -> FamilyRecord]]

\* NewMemoryStore, with the clients of the legacy opaque tokens an old file has.
NewStore(legacy) == [clients |-> legacy, legacy |-> legacy,
                     codes |-> [k \in Code |-> NoClient],
                     families |-> [f \in Family |-> Absent]]

Op == {"none", "SaveClient", "SaveAuthCode", "TakeAuthCode", "Legacy",
       "CreateFamily", "Rotate", "Replay", "RevokeFamily"}
FamilyOp == {"CreateFamily", "Rotate", "Replay", "RevokeFamily"}
Idle == [pc |-> "idle", op |-> "none", client |-> NoClient, code |-> None,
         family |-> None, presented |-> None, next |-> None]

Init ==
    /\ \E legacy \in SUBSET Client : mem = NewStore(legacy)
    /\ disk = mem /\ file = "whole"
    /\ mu = NoRequest
    /\ req = [r \in Request |-> Idle]
    /\ server = "up"
    /\ drawn = [codes |-> 0, families |-> 0, tokens |-> 0]
    /\ expired = [code |-> 0, token |-> 0]
    /\ sent = [codes |-> {}, tokens |-> {}]
    /\ faults = [writes |-> 0, crashes |-> 0]
    /\ standing = [f \in Family |-> None]
    /\ doubt = {} /\ known = mem.clients
    /\ exchanged = [k \in Code |-> 0]

-----------------------------------------------------------------------------
(* A store call takes the mutex, changes the maps and then writes the file   *)
(* with the mutex still held.                                                *)

Call(r, content, request) ==
    /\ mu = NoRequest
    /\ mu' = r
    /\ mem' = content
    /\ req' = [req EXCEPT ![r] = request]
    /\ UNCHANGED <<disk, file, server, expired, sent, faults, standing, doubt,
                   known, exchanged>>

Handles(r) == server = "up" /\ req[r].pc = "idle"

RegisterClient(r, c) ==
    /\ Handles(r)
    /\ c \notin mem.clients /\ c \notin known
    /\ Call(r, [mem EXCEPT !.clients = @ \cup {c}],
            [Idle EXCEPT !.pc = "saving", !.op = "SaveClient", !.client = c])
    /\ UNCHANGED drawn

\* The client is registered, the credentials are right: a new code is stored.
Authorize(r, c) ==
    LET k == drawn.codes + 1 IN
    /\ Handles(r)
    /\ c \in mem.clients
    /\ k \in Code
    /\ drawn' = [drawn EXCEPT !.codes = k]
    /\ Call(r, [mem EXCEPT !.codes[k] = c],
            [Idle EXCEPT !.pc = "saving", !.op = "SaveAuthCode", !.code = k])

AuthorizationCodeToken(r, k) ==
    /\ Handles(r)
    /\ k \in sent.codes
    /\ mem.codes[k] # NoClient
    /\ Call(r, [mem EXCEPT !.codes[k] = NoClient],
            [Idle EXCEPT !.pc = "saving", !.op = "TakeAuthCode", !.code = k,
                         !.client = mem.codes[k]])
    /\ UNCHANGED drawn

\* An opaque token of an older version is not consumed: it issues a new family.
LegacyRefreshToken(r, c) ==
    /\ Handles(r) /\ mu = NoRequest
    /\ c \in mem.legacy /\ c \in mem.clients
    /\ req' = [req EXCEPT ![r] = [Idle EXCEPT !.pc = "issuing", !.op = "Legacy",
                                              !.client = c]]
    /\ UNCHANGED <<storeVars, server, drawn, expired, sent, faults, historyVars>>

\* The code has not expired, its client is still known and the verifier matches.
IssueTokens(r) ==
    LET f == drawn.families + 1  t == drawn.tokens + 1 IN
    /\ req[r].pc = "issuing"
    /\ req[r].code = None \/ req[r].code > expired.code
    /\ req[r].client \in mem.clients
    /\ f \in Family /\ t \in Token
    /\ drawn' = [drawn EXCEPT !.families = f, !.tokens = t]
    /\ Call(r, [mem EXCEPT !.families[f] = [current |-> t, revoked |-> FALSE]],
            [Idle EXCEPT !.pc = "saving", !.op = "CreateFamily", !.family = f,
                         !.next = t])

\* Any check of the handler may fail after the code is spent.
RefuseTokens(r) ==
    /\ req[r].pc = "issuing"
    /\ req' = [req EXCEPT ![r] = Idle]
    /\ UNCHANGED <<storeVars, server, drawn, expired, sent, faults, historyVars>>

\* The signed token is valid, and its family is there, in force and not expired.
MayRotate(f, t) ==
    /\ t > expired.token
    /\ mem.families[f] # Absent
    /\ ~mem.families[f].revoked
    /\ mem.families[f].current > expired.token

Rotate(r, f, t) ==
    LET u == drawn.tokens + 1 IN
    /\ Handles(r)
    /\ <<f, t>> \in sent.tokens /\ MayRotate(f, t)
    /\ mem.families[f].current = t
    /\ u \in Token
    /\ drawn' = [drawn EXCEPT !.tokens = u]
    /\ Call(r, [mem EXCEPT !.families[f].current = u],
            [Idle EXCEPT !.pc = "saving", !.op = "Rotate", !.family = f,
                         !.presented = t, !.next = u])

\* Mutant: a replay is reported and the family left as it is.
ReplayNotRevoking(r, f, t) ==
    /\ Handles(r)
    /\ <<f, t>> \in sent.tokens /\ MayRotate(f, t)
    /\ mem.families[f].current # t
    /\ Call(r, mem, [Idle EXCEPT !.pc = "saving", !.op = "Replay", !.family = f,
                                 !.presented = t])
    /\ UNCHANGED drawn

\* Mutant: every repeated presentation counts as a replay.
ReplayOfCurrent(r, f, t) ==
    /\ Handles(r)
    /\ <<f, t>> \in sent.tokens /\ MayRotate(f, t)
    /\ Call(r, [mem EXCEPT !.families[f].revoked = TRUE],
            [Idle EXCEPT !.pc = "saving", !.op = "Replay", !.family = f,
                         !.presented = t])
    /\ UNCHANGED drawn

Replay(r, f, t) ==
    /\ Handles(r)
    /\ <<f, t>> \in sent.tokens /\ MayRotate(f, t)
    /\ mem.families[f].current # t
    /\ Call(r, [mem EXCEPT !.families[f].revoked = TRUE],
            [Idle EXCEPT !.pc = "saving", !.op = "Replay", !.family = f,
                         !.presented = t])
    /\ UNCHANGED drawn

RevokeFamily(r, f) ==
    /\ Handles(r)
    /\ mem.families[f] # Absent /\ ~mem.families[f].revoked
    /\ Call(r, [mem EXCEPT !.families[f].revoked = TRUE],
            [Idle EXCEPT !.pc = "saving", !.op = "RevokeFamily", !.family = f])
    /\ UNCHANGED drawn

-----------------------------------------------------------------------------
(* The file is written and the call returns.  The response may be lost.      *)

\* Mutant: a rotation or a registration is kept in memory only.
SavedWithoutWrite(r, op, request) ==
    /\ req[r].pc = "saving" /\ req[r].op \in op
    /\ IF op \cap {"Rotate", "SaveClient"} # {} THEN UNCHANGED disk ELSE disk' = mem
    /\ file' = "whole"
    /\ mu' = NoRequest
    /\ req' = [req EXCEPT ![r] = request]
    /\ UNCHANGED <<mem, server, drawn, expired, faults>>

Saved(r, op, request) ==
    /\ req[r].pc = "saving" /\ req[r].op \in op
    /\ disk' = mem /\ file' = "whole"
    /\ mu' = NoRequest
    /\ req' = [req EXCEPT ![r] = request]
    /\ UNCHANGED <<mem, server, drawn, expired, faults>>

ClientSaved(r) ==
    /\ Saved(r, {"SaveClient"}, Idle)
    /\ known' = known \cup {req[r].client}
    /\ UNCHANGED <<sent, standing, doubt, exchanged>>

AuthCodeSaved(r) ==
    /\ Saved(r, {"SaveAuthCode"}, Idle)
    /\ sent' \in {sent, [sent EXCEPT !.codes = @ \cup {req[r].code}]}
    /\ UNCHANGED historyVars

AuthCodeTaken(r) ==
    /\ Saved(r, {"TakeAuthCode"}, [req[r] EXCEPT !.pc = "issuing"])
    /\ exchanged' = [exchanged EXCEPT ![req[r].code] = @ + 1]
    /\ UNCHANGED <<sent, standing, doubt, known>>

TokensSaved(r) ==
    /\ Saved(r, {"CreateFamily", "Rotate"}, Idle)
    /\ standing' = [standing EXCEPT ![req[r].family] = req[r].next]
    /\ sent' \in {sent, [sent EXCEPT !.tokens = @ \cup {<<req[r].family, req[r].next>>}]}
    /\ UNCHANGED <<doubt, known, exchanged>>

RevocationSaved(r) ==
    /\ Saved(r, {"Replay", "RevokeFamily"}, Idle)
    /\ standing' = [standing EXCEPT ![req[r].family] = Revoked]
    /\ UNCHANGED <<sent, doubt, known, exchanged>>

\* The family a call is about.
About(r) == IF req[r].op \in FamilyOp THEN {req[r].family} ELSE {}

\* Mutant: TakeAuthCode does not look at the error of the write.
SaveFailsUnseen(r) ==
    /\ req[r].pc = "saving"
    /\ faults.writes < MaxFailures
    /\ faults' = [faults EXCEPT !.writes = @ + 1]
    /\ file' \in {file, "torn", "empty"}
    /\ mu' = NoRequest
    /\ LET taken == req[r].op = "TakeAuthCode" IN
       /\ req' = [req EXCEPT ![r] = IF taken THEN [@ EXCEPT !.pc = "issuing"] ELSE Idle]
       /\ exchanged' = IF taken THEN [exchanged EXCEPT ![req[r].code] = @ + 1]
                                ELSE exchanged
    /\ doubt' = doubt \cup About(r)
    /\ UNCHANGED <<mem, disk, server, drawn, expired, sent, standing, known>>

\* os.WriteFile returns an error: the change stays in memory, the file is as it
\* was, torn or truncated, and the request is answered with an error.
SaveFails(r) ==
    /\ req[r].pc = "saving"
    /\ faults.writes < MaxFailures
    /\ faults' = [faults EXCEPT !.writes = @ + 1]
    /\ file' \in {file, "torn", "empty"}
    /\ mu' = NoRequest
    /\ req' = [req EXCEPT ![r] = Idle]
    /\ doubt' = doubt \cup About(r)
    /\ UNCHANGED <<mem, disk, server, drawn, expired, sent, standing, known, exchanged>>

-----------------------------------------------------------------------------
(* Crashes, restarts and time.                                               *)

\* A crash in the middle of a write leaves the file before, in or after it.
Crash ==
    /\ server = "up"
    /\ faults.crashes < MaxCrashes
    /\ faults' = [faults EXCEPT !.crashes = @ + 1]
    /\ server' = "down"
    /\ \/ UNCHANGED <<disk, file>>
       \/ mu # NoRequest /\ file' \in {"torn", "empty"} /\ UNCHANGED disk
       \/ mu # NoRequest /\ file' = "whole" /\ disk' = mem
    /\ mu' = NoRequest
    /\ req' = [r \in Request |-> Idle]
    /\ doubt' = doubt \cup UNION {About(r) : r \in Request}
    /\ UNCHANGED <<mem, drawn, expired, sent, standing, known, exchanged>>

\* NewDiskStore: a complete file is loaded, an empty one is a new store.
Load ==
    /\ server = "down"
    /\ server' = IF file = "torn" THEN "failed" ELSE "up"
    /\ mem' = CASE file = "whole" -> disk
                [] file = "empty" -> NewStore({})
                [] OTHER -> mem
    /\ doubt' = IF file = "empty" THEN doubt \cup 1..drawn.families ELSE doubt
    /\ known' = IF file = "empty" THEN {} ELSE known
    /\ UNCHANGED <<disk, file, mu, req, drawn, expired, sent, faults, standing, exchanged>>

CodeExpires ==
    /\ expired.code < drawn.codes
    /\ expired' = [expired EXCEPT !.code = @ + 1]
    /\ UNCHANGED <<storeVars, req, server, drawn, sent, faults, historyVars>>

TokenExpires ==
    /\ expired.token < drawn.tokens
    /\ expired' = [expired EXCEPT !.token = @ + 1]
    /\ UNCHANGED <<storeVars, req, server, drawn, sent, faults, historyVars>>

Answer(r) ==
    \/ ClientSaved(r) \/ AuthCodeSaved(r) \/ AuthCodeTaken(r)
    \/ TokensSaved(r) \/ RevocationSaved(r) \/ SaveFails(r)
    \/ IssueTokens(r) \/ RefuseTokens(r)

Next ==
    \/ \E r \in Request :
          \/ \E c \in Client : RegisterClient(r, c) \/ Authorize(r, c)
                               \/ LegacyRefreshToken(r, c)
          \/ \E k \in Code : AuthorizationCodeToken(r, k)
          \/ \E f \in Family : RevokeFamily(r, f)
          \/ \E f \in Family, t \in Token : Rotate(r, f, t) \/ Replay(r, f, t)
          \/ Answer(r)
    \/ Crash \/ Load \/ CodeExpires \/ TokenExpires

Spec == Init /\ [][Next]_vars

-----------------------------------------------------------------------------
(* Properties.                                                               *)

RequestRecord == [pc: {"idle", "saving", "issuing"}, op: Op,
                  client: Client \cup {NoClient}, code: Code \cup {None},
                  family: Family \cup {None}, presented: Token \cup {None},
                  next: Token \cup {None}]

\* Every variable has its type, and the mutex is held exactly while a request
\* waits for its write (MemoryStore.mu).
TypeOK ==
    /\ mem \in Content /\ disk \in Content
    /\ file \in {"whole", "torn", "empty"}
    /\ mu \in Request \cup {NoRequest}
    /\ req \in [Request -> RequestRecord]
    /\ \A r \in Request : req[r].pc = "saving" <=> mu = r
    /\ server \in {"up", "down", "failed"}
    /\ drawn \in [codes: 0..MaxCode, families: 0..MaxFamily, tokens: 0..MaxToken]
    /\ expired \in [code: 0..MaxCode, token: 0..MaxToken]
    /\ sent \in [codes: SUBSET Code, tokens: SUBSET (Family \X Token)]
    /\ faults \in [writes: 0..MaxFailures, crashes: 0..MaxCrashes]
    /\ standing \in [Family -> Token \cup {None, Revoked}]
    /\ doubt \subseteq Family /\ known \subseteq Client
    /\ exchanged \in [Code -> Nat]

\* An authorization code is handed out at most once (TakeAuthCode), whatever
\* write fails and wherever a crash falls.
CodeUsedOnce == \A k \in Code : exchanged[k] <= 1

InCall(f) == mu # NoRequest /\ req[mu].op \in FamilyOp /\ req[mu].family = f

\* The token of the last answer is the one the store will accept (Rotate),
\* unless a call on its family failed or the file was emptied: failed writes and
\* crashes of other requests never cost a user agent its session.
StandingIsHonoured ==
    \A f \in Family \ doubt :
        server = "up" /\ standing[f] \in Token /\ ~InCall(f) =>
            mem.families[f] = [current |-> standing[f], revoked |-> FALSE]

\* A rotation is granted for the token of the last answer, and a user agent that
\* presents that token is never accused of a replay unless a call on the family
\* failed before (Rotate's comparison with CurrentTokenID).
NoFalseReplay ==
    \A r \in Request :
        /\ req[r].op = "Rotate" => req[r].presented = standing[req[r].family]
        /\ req[r].op = "Replay" /\ req[r].family \notin doubt =>
              req[r].presented # standing[req[r].family]

\* A client whose registration was answered is known (SaveClient, GetClient)
\* after every crash that left a complete file.
ClientsAreKept == server = "up" => known \subseteq mem.clients

\* The answers of the store are those of the interface RefreshTokenStateStore: a
\* token is exchanged once and a replayed family stays revoked, across crashes.
States == INSTANCE RefreshTokenStates
              WITH Family <- Family, Token <- Token,
                   standing <- standing, doubt <- doubt
ImplementsStates == States!Spec

\* What was answered stays true after crashes and failed writes of other
\* requests: the refresh tokens handed out and the clients registered.
AnswersSurvive == StandingIsHonoured /\ ClientsAreKept

-----------------------------------------------------------------------------
(* The inductive invariant.                                                  *)

\* What a request is in the middle of: nothing while the server is down, a family
\* for a call about one, and so on.
Phases ==
    /\ server # "up" => mu = NoRequest
    /\ \A r \in Request :
          /\ req[r].pc = "idle" => req[r] = Idle
          /\ req[r].pc = "issuing" => req[r].op \in {"TakeAuthCode", "Legacy"} /\ server = "up"
          /\ req[r].pc = "saving" => req[r].op \notin {"none", "Legacy"} /\ server = "up"
          /\ req[r].op = "SaveClient" => req[r].client \in Client /\ req[r].pc = "saving"
          /\ req[r].op \in {"SaveAuthCode", "TakeAuthCode"} => req[r].code \in Code
          /\ req[r].op \in FamilyOp => req[r].family \in Family /\ req[r].pc = "saving"
          /\ req[r].op \in {"CreateFamily", "Rotate"} => req[r].next \in Token
          /\ req[r].op \in {"Rotate", "Replay"} => req[r].presented \in Token

\* A code that was handed out is gone from memory and from the file.
CodesFit(content) ==
    \A k \in Code : /\ content.codes[k] # NoClient => k <= drawn.codes
                    /\ exchanged[k] > 0 => content.codes[k] = NoClient

CodesAgree ==
    /\ CodesFit(mem) /\ CodesFit(disk)
    /\ \A k \in Code : exchanged[k] <= 1 /\ (exchanged[k] > 0 => k <= drawn.codes)
    /\ \A r \in Request : req[r].pc = "saving" /\ req[r].op = "TakeAuthCode" =>
          LET k == req[r].code
          IN  mem.codes[k] = NoClient /\ exchanged[k] = 0 /\ k <= drawn.codes

\* Neither memory nor the file is behind the last answer about a family.
FamilyFits(content, f) ==
    LET kept == content.families[f] IN
    /\ f > drawn.families => kept = Absent
    /\ kept.current <= drawn.tokens
    /\ standing[f] = Revoked /\ kept # Absent => kept.revoked
    /\ standing[f] \in Token /\ kept # Absent => kept.current >= standing[f]

\* The call in progress is about to replace just the last answer.
CallFits(r) ==
    LET f == req[r].family IN
    /\ req[r].op \in FamilyOp => standing[f] # Revoked /\ f <= drawn.families
    /\ req[r].op = "CreateFamily" => standing[f] = None
    /\ req[r].op = "Rotate" => /\ standing[f] = req[r].presented
                               /\ standing[f] < req[r].next
    /\ req[r].op \in {"CreateFamily", "Rotate"} =>
          /\ mem.families[f] = [current |-> req[r].next, revoked |-> FALSE]
          /\ req[r].next <= drawn.tokens
    /\ req[r].op \in {"Replay", "RevokeFamily"} => mem.families[f].revoked

\* A token that was sent is not newer than the last answer.
FamiliesAgree ==
    /\ \A f \in Family : FamilyFits(mem, f) /\ FamilyFits(disk, f)
    /\ \A f \in Family : f > drawn.families => standing[f] = None
    /\ \A f \in Family, t \in Token :
          <<f, t>> \in sent.tokens /\ standing[f] # Revoked => t <= standing[f]
    /\ \A r \in Request : CallFits(r)

\* The file, too, keeps the last answer and the clients known by answers.
Honoured(content, f) ==
    standing[f] \in Token =>
        content.families[f] = [current |-> standing[f], revoked |-> FALSE]

TokensAreKept ==
    /\ \A f \in Family \ doubt :
          /\ Honoured(disk, f)
          /\ server = "up" /\ ~InCall(f) => Honoured(mem, f)
    /\ NoFalseReplay

RegistrationsAreKept ==
    /\ known \subseteq disk.clients
    /\ server = "up" => known \subseteq mem.clients
    /\ \A r \in Request : req[r].op = "SaveClient" => req[r].client \in mem.clients

IndInv ==
    /\ TypeOK /\ Phases /\ CodesAgree /\ FamiliesAgree
    /\ TokensAreKept /\ RegistrationsAreKept

=============================================================================
