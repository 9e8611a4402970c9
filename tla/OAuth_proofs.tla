----------------------------- MODULE OAuth_proofs -----------------------------
(* Proofs about module OAuth, for any requests, clients, bounds and faults.  *)
EXTENDS OAuth, TLAPS

USE OAuthAssumption

(* The identifiers are positive numbers; None and Revoked are none of them.  *)
LEMMA IDs == /\ Code \subseteq Nat \ {0} /\ Family \subseteq Nat \ {0}
             /\ Token \subseteq Nat \ {0}
             /\ None \notin Code \cup Family \cup Token
             /\ Revoked \notin Code \cup Family \cup Token /\ None # Revoked
  BY DEF Code, Family, Token, None, Revoked

LEMMA IdleType == Idle \in RequestRecord
  BY DEF Idle, RequestRecord, Op

LEMMA StoreType ==
  ASSUME NEW legacy \in SUBSET Client
  PROVE  NewStore(legacy) \in Content
  <1>1. Absent \in FamilyRecord
    BY DEF Absent, FamilyRecord
  <1>2. QED
    BY <1>1 DEF NewStore, Content

LEMMA InitInv == Init => IndInv
  <1> SUFFICES ASSUME Init PROVE IndInv
    OBVIOUS
  <1> PICK legacy \in SUBSET Client : mem = NewStore(legacy)
    BY DEF Init
  <1>1. TypeOK
    BY IdleType, StoreType, IDs DEF Init, TypeOK, Idle, NewStore
  <1>2. Phases
    BY DEF Init, Phases, Idle, FamilyOp
  <1>3. CodesAgree
    BY IDs DEF Init, CodesAgree, CodesFit, NewStore, Idle
  <1>4. FamiliesAgree
    BY IDs DEF Init, FamiliesAgree, FamilyFits, CallFits, NewStore, Absent, Idle, FamilyOp, None, Revoked
  <1>5. TokensAreKept /\ RegistrationsAreKept
    BY IDs DEF Init, TokensAreKept, RegistrationsAreKept, Honoured, NoFalseReplay,
               NewStore, Idle, None
  <1>6. QED
    BY <1>1, <1>2, <1>3, <1>4, <1>5 DEF IndInv

(* A call of the store begins.                                               *)
LEMMA CallType ==
  ASSUME TypeOK, Phases, NEW r \in Request, server = "up",
         NEW content \in Content, NEW request \in RequestRecord,
         Call(r, content, request), request.pc = "saving",
         request.op \notin {"none", "Legacy"},
         request.op = "SaveClient" => request.client \in Client,
         request.op \in {"SaveAuthCode", "TakeAuthCode"} => request.code \in Code,
         request.op \in FamilyOp => request.family \in Family,
         request.op \in {"CreateFamily", "Rotate"} => request.next \in Token,
         request.op \in {"Rotate", "Replay"} => request.presented \in Token,
         drawn' \in [codes: 0..MaxCode, families: 0..MaxFamily, tokens: 0..MaxToken]
  PROVE  TypeOK' /\ Phases'
  <1>1. req' \in [Request -> RequestRecord] /\ mu' = r /\ mem' \in Content
    BY DEF Call, TypeOK
  <1>2. \A q \in Request : req'[q].pc = "saving" <=> mu' = q
    BY DEF Call, TypeOK
  <1>3. TypeOK'
    BY <1>1, <1>2 DEF TypeOK, Call
  <1>4. Phases'
    BY DEF Call, TypeOK, Phases
  <1>5. QED
    BY <1>3, <1>4

(* It ends, with the file written.                                           *)
LEMMA SavedType ==
  ASSUME TypeOK, Phases, NEW r \in Request, NEW op,
         NEW request \in RequestRecord, Saved(r, op, request),
         \/ request = Idle
         \/ request = [req[r] EXCEPT !.pc = "issuing"] /\ req[r].op = "TakeAuthCode"
  PROVE  /\ mem' \in Content /\ disk' \in Content
         /\ file' \in {"whole", "torn", "empty"} /\ mu' \in Request \cup {NoRequest}
         /\ req' \in [Request -> RequestRecord]
         /\ \A q \in Request : req'[q].pc = "saving" <=> mu' = q
         /\ server' \in {"up", "down", "failed"}
         /\ drawn' \in [codes: 0..MaxCode, families: 0..MaxFamily, tokens: 0..MaxToken]
         /\ expired' \in [code: 0..MaxCode, token: 0..MaxToken]
         /\ faults' \in [writes: 0..MaxFailures, crashes: 0..MaxCrashes]
         /\ Phases'
  <1>1. req[r] \in RequestRecord /\ request.pc # "saving"
    BY DEF Idle, TypeOK, RequestRecord
  <1>2. \A q \in Request : q # r => req[q].pc # "saving"
    BY DEF Saved, TypeOK
  <1>3. Phases'
    BY <1>1, <1>2 DEF Phases, Saved, TypeOK, Idle, FamilyOp, RequestRecord
  <1>4. QED
    BY <1>1, <1>2, <1>3 DEF Saved, TypeOK

LEMMA RevokedType ==
  ASSUME TypeOK, NEW f \in Family
  PROVE  [mem EXCEPT !.families[f].revoked = TRUE] \in Content
  <1>0. mem.families[f] \in FamilyRecord
    BY DEF TypeOK, Content
  <1>1. [mem.families[f] EXCEPT !.revoked = TRUE] \in FamilyRecord
    BY <1>0 DEF FamilyRecord
  <1>2. QED
    BY <1>1 DEF TypeOK, Content

LEMMA RotatedType ==
  ASSUME TypeOK, NEW f \in Family, NEW u \in Token
  PROVE  [mem EXCEPT !.families[f].current = u] \in Content
  <1>0. mem.families[f] \in FamilyRecord
    BY DEF TypeOK, Content
  <1>1. [mem.families[f] EXCEPT !.current = u] \in FamilyRecord
    BY <1>0 DEF FamilyRecord
  <1>2. QED
    BY <1>1 DEF TypeOK, Content

(* Every kind of call is well-typed.                                         *)
LEMMA RegisterClientType ==
  ASSUME TypeOK, Phases, NEW r \in Request, NEW c \in Client, RegisterClient(r, c)
  PROVE  TypeOK' /\ Phases'
  <1> DEFINE content == [mem EXCEPT !.clients = @ \cup {c}]
             request == [Idle EXCEPT !.pc = "saving", !.op = "SaveClient", !.client = c]
  <1>1. content \in Content
    BY DEF TypeOK, Content
  <1>2. request \in RequestRecord /\ request.pc = "saving" /\ request.op = "SaveClient"
        /\ request.client = c
    BY DEF Idle, RequestRecord, Op
  <1>3. server = "up" /\ Call(r, content, request) /\ UNCHANGED drawn
    BY DEF RegisterClient, Handles
  <1> HIDE DEF content, request
  <1>4. QED
    BY <1>1, <1>2, <1>3, CallType DEF FamilyOp, TypeOK

LEMMA AuthorizeType ==
  ASSUME TypeOK, Phases, NEW r \in Request, NEW c \in Client, Authorize(r, c)
  PROVE  TypeOK' /\ Phases'
  <1> DEFINE k == drawn.codes + 1
             content == [mem EXCEPT !.codes[k] = c]
             request == [Idle EXCEPT !.pc = "saving", !.op = "SaveAuthCode", !.code = k]
  <1>0. k \in Code
    BY DEF Authorize
  <1>1. content \in Content
    BY <1>0 DEF TypeOK, Content
  <1>2. request \in RequestRecord /\ request.pc = "saving" /\ request.op = "SaveAuthCode"
        /\ request.code = k
    BY <1>0 DEF Idle, RequestRecord, Op
  <1>3. server = "up" /\ Call(r, content, request) /\ drawn' = [drawn EXCEPT !.codes = k]
    BY DEF Authorize, Handles
  <1>6. k \in 0..MaxCode
    BY <1>0 DEF Code
  <1> HIDE DEF content, request, k
  <1>4. drawn' \in [codes: 0..MaxCode, families: 0..MaxFamily, tokens: 0..MaxToken]
    BY <1>3, <1>6 DEF TypeOK
  <1>5. QED
    BY <1>0, <1>1, <1>2, <1>3, <1>4, CallType DEF FamilyOp

LEMMA AuthorizationCodeTokenType ==
  ASSUME TypeOK, Phases, NEW r \in Request, NEW k \in Code, AuthorizationCodeToken(r, k)
  PROVE  TypeOK' /\ Phases'
  <1> DEFINE content == [mem EXCEPT !.codes[k] = NoClient]
             request == [Idle EXCEPT !.pc = "saving", !.op = "TakeAuthCode", !.code = k,
                                     !.client = mem.codes[k]]
  <1>1. content \in Content /\ mem.codes[k] \in Client \cup {NoClient}
    BY DEF TypeOK, Content
  <1>2. request \in RequestRecord /\ request.pc = "saving" /\ request.op = "TakeAuthCode"
        /\ request.code = k
    BY <1>1 DEF Idle, RequestRecord, Op
  <1>3. server = "up" /\ Call(r, content, request) /\ UNCHANGED drawn
    BY DEF AuthorizationCodeToken, Handles
  <1> HIDE DEF content, request
  <1>4. QED
    BY <1>1, <1>2, <1>3, CallType DEF FamilyOp, TypeOK

LEMMA IssueTokensType ==
  ASSUME TypeOK, Phases, NEW r \in Request, IssueTokens(r)
  PROVE  TypeOK' /\ Phases'
  <1> DEFINE f == drawn.families + 1
             t == drawn.tokens + 1
             content == [mem EXCEPT !.families[f] = [current |-> t, revoked |-> FALSE]]
             request == [Idle EXCEPT !.pc = "saving", !.op = "CreateFamily", !.family = f,
                                     !.next = t]
  <1>0. f \in Family /\ t \in Token
    BY DEF IssueTokens
  <1>1. content \in Content
    <2>1. [current |-> t, revoked |-> FALSE] \in FamilyRecord
      BY <1>0 DEF FamilyRecord
    <2>2. QED
      BY <2>1 DEF TypeOK, Content
  <1>2. request \in RequestRecord /\ request.pc = "saving" /\ request.op = "CreateFamily"
        /\ request.family = f /\ request.next = t
    BY <1>0 DEF Idle, RequestRecord, Op
  <1>3. /\ server = "up" /\ Call(r, content, request)
        /\ drawn' = [drawn EXCEPT !.families = f, !.tokens = t]
    BY DEF IssueTokens, Phases
  <1>6. f \in 0..MaxFamily /\ t \in 0..MaxToken
    BY <1>0 DEF Family, Token
  <1> HIDE DEF content, request, f, t
  <1>4. drawn' \in [codes: 0..MaxCode, families: 0..MaxFamily, tokens: 0..MaxToken]
    BY <1>3, <1>6 DEF TypeOK
  <1>5. QED
    BY <1>0, <1>1, <1>2, <1>3, <1>4, CallType DEF FamilyOp

LEMMA RotateType ==
  ASSUME TypeOK, Phases, NEW r \in Request, NEW f \in Family, NEW t \in Token, Rotate(r, f, t)
  PROVE  TypeOK' /\ Phases'
  <1> DEFINE u == drawn.tokens + 1
             content == [mem EXCEPT !.families[f].current = u]
             request == [Idle EXCEPT !.pc = "saving", !.op = "Rotate", !.family = f,
                                     !.presented = t, !.next = u]
  <1>0. u \in Token
    BY DEF Rotate
  <1>1. content \in Content
    BY <1>0, RotatedType
  <1>2. request \in RequestRecord /\ request.pc = "saving" /\ request.op = "Rotate"
        /\ request.family = f /\ request.presented = t /\ request.next = u
    BY <1>0 DEF Idle, RequestRecord, Op
  <1>3. /\ server = "up" /\ Call(r, content, request)
        /\ drawn' = [drawn EXCEPT !.tokens = u]
    BY DEF Rotate, Handles
  <1>6. u \in 0..MaxToken
    BY <1>0 DEF Token
  <1> HIDE DEF content, request, u
  <1>4. drawn' \in [codes: 0..MaxCode, families: 0..MaxFamily, tokens: 0..MaxToken]
    BY <1>3, <1>6 DEF TypeOK
  <1>5. QED
    BY <1>0, <1>1, <1>2, <1>3, <1>4, CallType DEF FamilyOp

LEMMA ReplayType ==
  ASSUME TypeOK, Phases, NEW r \in Request, NEW f \in Family, NEW t \in Token, Replay(r, f, t)
  PROVE  TypeOK' /\ Phases'
  <1> DEFINE content == [mem EXCEPT !.families[f].revoked = TRUE]
             request == [Idle EXCEPT !.pc = "saving", !.op = "Replay", !.family = f,
                                     !.presented = t]
  <1>1. content \in Content
    BY RevokedType
  <1>2. request \in RequestRecord /\ request.pc = "saving" /\ request.op = "Replay"
        /\ request.family = f /\ request.presented = t
    BY DEF Idle, RequestRecord, Op
  <1>3. server = "up" /\ Call(r, content, request) /\ UNCHANGED drawn
    BY DEF Replay, Handles
  <1> HIDE DEF content, request
  <1>4. QED
    BY <1>1, <1>2, <1>3, CallType DEF FamilyOp, TypeOK

LEMMA RevokeFamilyType ==
  ASSUME TypeOK, Phases, NEW r \in Request, NEW f \in Family, RevokeFamily(r, f)
  PROVE  TypeOK' /\ Phases'
  <1> DEFINE content == [mem EXCEPT !.families[f].revoked = TRUE]
             request == [Idle EXCEPT !.pc = "saving", !.op = "RevokeFamily", !.family = f]
  <1>1. content \in Content
    BY RevokedType
  <1>2. request \in RequestRecord /\ request.pc = "saving" /\ request.op = "RevokeFamily"
        /\ request.family = f
    BY DEF Idle, RequestRecord, Op
  <1>3. server = "up" /\ Call(r, content, request) /\ UNCHANGED drawn
    BY DEF RevokeFamily, Handles
  <1> HIDE DEF content, request
  <1>4. QED
    BY <1>1, <1>2, <1>3, CallType DEF FamilyOp, TypeOK

(* So are the answers, crashes and restarts.                                 *)
LEMMA AnswerType ==
  ASSUME TypeOK, Phases, NEW r \in Request, Answer(r)
  PROVE  TypeOK' /\ Phases'
  <1>1. CASE ClientSaved(r)
    <2>1. known' \subseteq Client
      BY <1>1 DEF ClientSaved, Saved, TypeOK, Phases
    <2>2. QED
      BY <1>1, <2>1, SavedType, IdleType DEF ClientSaved, TypeOK
  <1>2. CASE AuthCodeSaved(r)
    <2>1. sent' \in [codes: SUBSET Code, tokens: SUBSET (Family \X Token)]
      BY <1>2 DEF AuthCodeSaved, Saved, TypeOK, Phases
    <2>2. QED
      BY <1>2, <2>1, SavedType, IdleType DEF AuthCodeSaved, TypeOK, historyVars
  <1>3. CASE AuthCodeTaken(r)
    <2> DEFINE request == [req[r] EXCEPT !.pc = "issuing"]
    <2>1. request \in RequestRecord /\ req[r].op = "TakeAuthCode"
      BY <1>3 DEF AuthCodeTaken, Saved, TypeOK, RequestRecord
    <2>2. exchanged' \in [Code -> Nat]
      <3>1. req[r].code \in Code
        BY <2>1 DEF Phases
      <3>2. exchanged[req[r].code] + 1 \in Nat
        BY <3>1 DEF TypeOK
      <3>3. QED
        BY <1>3, <3>2 DEF AuthCodeTaken, TypeOK
    <2>3. Saved(r, {"TakeAuthCode"}, request)
      BY <1>3 DEF AuthCodeTaken
    <2>4. QED
      BY <1>3, <2>1, <2>2, <2>3, SavedType DEF AuthCodeTaken, TypeOK
  <1>4. CASE TokensSaved(r)
    <2>1. req[r].family \in Family /\ req[r].next \in Token
      BY <1>4 DEF TokensSaved, Saved, Phases, FamilyOp
    <2>2. sent' \in [codes: SUBSET Code, tokens: SUBSET (Family \X Token)]
      BY <1>4, <2>1 DEF TokensSaved, TypeOK
    <2>3. standing' \in [Family -> Token \cup {None, Revoked}]
      BY <1>4, <2>1 DEF TokensSaved, TypeOK
    <2>4. QED
      BY <1>4, <2>2, <2>3, SavedType, IdleType DEF TokensSaved, TypeOK
  <1>5. CASE RevocationSaved(r)
    <2>1. standing' \in [Family -> Token \cup {None, Revoked}]
      BY <1>5 DEF RevocationSaved, TypeOK
    <2>2. QED
      BY <1>5, <2>1, SavedType, IdleType DEF RevocationSaved, TypeOK
  <1>6. CASE SaveFails(r)
    <2>1. About(r) \subseteq Family
      BY DEF About, Phases
    <2>2. faults' \in [writes: 0..MaxFailures, crashes: 0..MaxCrashes]
      BY <1>6 DEF SaveFails, TypeOK
    <2>3. \A q \in Request : q # r => req[q].pc # "saving"
      BY <1>6 DEF SaveFails, TypeOK
    <2>4. /\ req' \in [Request -> RequestRecord]
          /\ \A q \in Request : req'[q].pc = "saving" <=> mu' = q
      BY <1>6, <2>3, IdleType DEF SaveFails, TypeOK, Idle
    <2>5. TypeOK'
      BY <1>6, <2>1, <2>2, <2>4 DEF SaveFails, TypeOK
    <2>6. Phases'
      BY <1>6, <2>3 DEF SaveFails, TypeOK, Phases, Idle, FamilyOp
    <2>7. QED
      BY <2>5, <2>6
  <1>7. CASE IssueTokens(r)
    BY <1>7, IssueTokensType
  <1>8. CASE RefuseTokens(r)
    <2>1. /\ req' \in [Request -> RequestRecord]
          /\ \A q \in Request : req'[q].pc = "saving" <=> mu = q
      BY <1>8, IdleType DEF RefuseTokens, TypeOK, Idle
    <2>2. Phases'
      BY <1>8 DEF RefuseTokens, TypeOK, Phases, Idle, FamilyOp, storeVars
    <2>3. QED
      BY <1>8, <2>1, <2>2 DEF RefuseTokens, TypeOK, storeVars, historyVars
  <1>9. QED
    BY <1>1, <1>2, <1>3, <1>4, <1>5, <1>6, <1>7, <1>8 DEF Answer

LEMMA LegacyType ==
  ASSUME TypeOK, Phases, NEW r \in Request, NEW c \in Client, LegacyRefreshToken(r, c)
  PROVE  TypeOK' /\ Phases'
  <1> DEFINE request == [Idle EXCEPT !.pc = "issuing", !.op = "Legacy", !.client = c]
  <1>1. request \in RequestRecord /\ request.pc = "issuing" /\ request.op = "Legacy"
    BY DEF Idle, RequestRecord, Op
  <1>2. req' = [req EXCEPT ![r] = request] /\ mu = NoRequest /\ server = "up"
    BY DEF LegacyRefreshToken, Handles
  <1> HIDE DEF request
  <1>3. /\ req' \in [Request -> RequestRecord]
        /\ \A q \in Request : req'[q].pc = "saving" <=> mu = q
    BY <1>1, <1>2 DEF TypeOK
  <1>4. Phases'
    BY <1>1, <1>2 DEF LegacyRefreshToken, TypeOK, Phases, FamilyOp, storeVars
  <1>5. QED
    BY <1>3, <1>4 DEF LegacyRefreshToken, TypeOK, storeVars, historyVars

LEMMA CrashType ==
  ASSUME TypeOK, Phases, Crash
  PROVE  TypeOK' /\ Phases'
  <1>1. UNION {About(r) : r \in Request} \subseteq Family
    BY DEF About, Phases
  <1>2. faults' \in [writes: 0..MaxFailures, crashes: 0..MaxCrashes]
    BY DEF Crash, TypeOK
  <1>3. disk' \in Content /\ file' \in {"whole", "torn", "empty"}
    BY DEF Crash, TypeOK
  <1>4. /\ req' \in [Request -> RequestRecord]
        /\ \A q \in Request : req'[q].pc = "saving" <=> mu' = q
    BY IdleType DEF Crash, TypeOK, Idle
  <1>5. Phases'
    BY DEF Crash, Phases, Idle, FamilyOp
  <1>6. QED
    BY <1>1, <1>2, <1>3, <1>4, <1>5 DEF Crash, TypeOK

LEMMA LoadType ==
  ASSUME TypeOK, Phases, Load
  PROVE  TypeOK' /\ Phases'
  <1>1. NewStore({}) \in Content
    BY StoreType
  <1>2. mem' \in Content
    BY <1>1 DEF Load, TypeOK
  <1>3. doubt' \subseteq Family /\ known' \subseteq Client
    BY DEF Load, TypeOK, Family
  <1>4. mu = NoRequest
    BY DEF Load, Phases
  <1>5. Phases'
    BY <1>4 DEF Load, Phases, TypeOK
  <1>6. QED
    BY <1>2, <1>3, <1>5 DEF Load, TypeOK

LEMMA TypeStep == TypeOK /\ Phases /\ [Next]_vars => TypeOK' /\ Phases'
  <1> SUFFICES ASSUME TypeOK, Phases, [Next]_vars PROVE TypeOK' /\ Phases'
    OBVIOUS
  <1>1. CASE \E r \in Request, c \in Client :
                 RegisterClient(r, c) \/ Authorize(r, c) \/ LegacyRefreshToken(r, c)
    BY <1>1, RegisterClientType, AuthorizeType, LegacyType
  <1>2. CASE \E r \in Request : \/ \E k \in Code : AuthorizationCodeToken(r, k)
                                \/ \E f \in Family : RevokeFamily(r, f)
                                \/ \E f \in Family, t \in Token : Rotate(r, f, t) \/ Replay(r, f, t)
    BY <1>2, AuthorizationCodeTokenType, RevokeFamilyType, RotateType, ReplayType
  <1>3. CASE \E r \in Request : Answer(r)
    BY <1>3, AnswerType
  <1>4. CASE Crash \/ Load
    BY <1>4, CrashType, LoadType
  <1>5. CASE CodeExpires
    <2>1. expired' \in [code: 0..MaxCode, token: 0..MaxToken]
      BY <1>5 DEF CodeExpires, TypeOK
    <2>2. QED
      BY <1>5, <2>1 DEF CodeExpires, TypeOK, Phases, storeVars, historyVars
  <1>6. CASE TokenExpires
    <2>1. expired' \in [code: 0..MaxCode, token: 0..MaxToken]
      BY <1>6 DEF TokenExpires, TypeOK
    <2>2. QED
      BY <1>6, <2>1 DEF TokenExpires, TypeOK, Phases, storeVars, historyVars
  <1>7. CASE UNCHANGED vars
    BY <1>7 DEF vars, TypeOK, Phases
  <1>8. QED
    BY <1>1, <1>2, <1>3, <1>4, <1>5, <1>6, <1>7 DEF Next

(* A step that leaves the codes alone, though it may write the file.         *)
LEMMA CodesStay ==
  ASSUME TypeOK, TypeOK', Phases, CodesAgree, mem'.codes = mem.codes,
         disk'.codes \in {mem.codes, disk.codes},
         exchanged' = exchanged, drawn.codes <= drawn'.codes,
         \A q \in Request : req'[q].pc = "saving" /\ req'[q].op = "TakeAuthCode" =>
             req'[q] = req[q]
  PROVE  CodesAgree'
  <1> USE IDs
  <1>0. \A k \in Code : k <= drawn.codes => k <= drawn'.codes
    <2>1. drawn.codes \in Nat /\ drawn'.codes \in Nat
      BY DEF TypeOK
    <2>2. QED
      BY <2>1, IDs DEF Code
  <1>1. CodesFit(mem)' /\ CodesFit(disk)'
    BY <1>0 DEF CodesAgree, CodesFit
  <1>2. \A k \in Code : exchanged'[k] <= 1 /\ (exchanged'[k] > 0 => k <= drawn'.codes)
    BY <1>0 DEF CodesAgree
  <1>3. \A q \in Request : req'[q].pc = "saving" /\ req'[q].op = "TakeAuthCode" =>
            LET k == req'[q].code
            IN  mem'.codes[k] = NoClient /\ exchanged'[k] = 0 /\ k <= drawn'.codes
    <2> SUFFICES ASSUME NEW q \in Request, req'[q].pc = "saving", req'[q].op = "TakeAuthCode"
                 PROVE  /\ mem'.codes[req[q].code] = NoClient /\ exchanged'[req[q].code] = 0
                        /\ req[q].code <= drawn'.codes /\ req'[q] = req[q]
      OBVIOUS
    <2>1. req'[q] = req[q]
      OBVIOUS
    <2>2. req[q].code \in Code
      BY <2>1 DEF Phases
    <2>3. /\ mem.codes[req[q].code] = NoClient /\ exchanged[req[q].code] = 0
          /\ req[q].code <= drawn.codes
      BY <2>1 DEF CodesAgree
    <2>4. QED
      BY <1>0, <2>1, <2>2, <2>3
  <1>4. QED
    BY <1>1, <1>2, <1>3 DEF CodesAgree

LEMMA CodesStep ==
  ASSUME TypeOK, Phases, TypeOK', CodesAgree, Next
  PROVE  CodesAgree'
  <1> USE IDs
  <1>1. ASSUME NEW r \in Request, NEW c \in Client, RegisterClient(r, c)
        PROVE  CodesAgree'
    <2>1. mem'.codes = mem.codes /\ disk' = disk /\ exchanged' = exchanged /\ drawn' = drawn
      BY <1>1 DEF RegisterClient, Call, TypeOK, Content
    <2>2. \A q \in Request : q # r => req'[q] = req[q]
      BY <1>1 DEF RegisterClient, Call, TypeOK
    <2>3. req'[r].op = "SaveClient"
      BY <1>1 DEF RegisterClient, Call, TypeOK, Idle
    <2>4. QED
      BY <2>1, <2>2, <2>3, CodesStay DEF TypeOK
  <1>2. ASSUME NEW r \in Request, NEW c \in Client, Authorize(r, c)
        PROVE  CodesAgree'
    <2> DEFINE k == drawn.codes + 1
    <2>1. /\ k \in Code /\ drawn'.codes = k /\ mem'.codes = [mem.codes EXCEPT ![k] = c]
          /\ disk' = disk /\ exchanged' = exchanged /\ mu = NoRequest
      BY <1>2 DEF Authorize, Call, TypeOK, Content
    <2>2. exchanged[k] = 0 /\ drawn.codes \in Nat
      BY <2>1 DEF CodesAgree, TypeOK
    <2>3. CodesFit(mem)' /\ CodesFit(disk)'
      <3>1. \A j \in Code : j # k => mem'.codes[j] = mem.codes[j]
        BY <2>1 DEF TypeOK, Content
      <3> HIDE DEF k
      <3>2. \A j \in Code : j <= drawn.codes => j <= drawn'.codes
        BY <2>1, <2>2 DEF k
      <3>3. QED
        BY <2>1, <2>2, <3>1, <3>2 DEF CodesAgree, CodesFit
    <2>4. \A q \in Request : req'[q].pc = "saving" => req'[q].op = "SaveAuthCode"
      BY <1>2 DEF Authorize, Call, TypeOK, Idle
    <2>5. \A j \in Code : exchanged'[j] <= 1 /\ (exchanged'[j] > 0 => j <= drawn'.codes)
      BY <2>1, <2>2 DEF CodesAgree, TypeOK
    <2>6. QED
      BY <2>3, <2>4, <2>5 DEF CodesAgree
  <1>3. ASSUME NEW r \in Request, NEW c \in Client, LegacyRefreshToken(r, c)
        PROVE  CodesAgree'
    <2>1. \A q \in Request : q # r => req'[q] = req[q]
      BY <1>3 DEF LegacyRefreshToken, TypeOK
    <2>2. req'[r].pc = "issuing"
      BY <1>3 DEF LegacyRefreshToken, TypeOK, Idle
    <2>3. QED
      BY <1>3, <2>1, <2>2, CodesStay DEF LegacyRefreshToken, storeVars, historyVars, TypeOK
  <1>4. ASSUME NEW r \in Request, NEW k \in Code, AuthorizationCodeToken(r, k)
        PROVE  CodesAgree'
    <2>1. /\ mem.codes[k] # NoClient /\ mem'.codes = [mem.codes EXCEPT ![k] = NoClient]
          /\ disk' = disk /\ exchanged' = exchanged /\ drawn' = drawn
      BY <1>4 DEF AuthorizationCodeToken, Call, TypeOK, Content
    <2>2. exchanged[k] = 0 /\ k <= drawn.codes
      BY <2>1 DEF CodesAgree, CodesFit, TypeOK
    <2>3. CodesFit(mem)' /\ CodesFit(disk)'
      BY <2>1 DEF CodesAgree, CodesFit, TypeOK, Content
    <2>4. \A q \in Request : req'[q].pc = "saving" => req'[q].code = k
      BY <1>4 DEF AuthorizationCodeToken, Call, TypeOK, Idle
    <2>5. mem'.codes[k] = NoClient
      BY <2>1 DEF TypeOK, Content
    <2>6. QED
      BY <2>1, <2>2, <2>3, <2>4, <2>5 DEF CodesAgree
  <1>5. ASSUME NEW r \in Request, NEW f \in Family, NEW t \in Token, Rotate(r, f, t)
        PROVE  CodesAgree'
    <2>1. /\ mem'.codes = mem.codes /\ disk' = disk /\ exchanged' = exchanged
          /\ drawn'.codes = drawn.codes
      BY <1>5 DEF Rotate, Call, TypeOK, Content
    <2>2. \A q \in Request : q # r => req'[q] = req[q]
      BY <1>5 DEF Rotate, Call, TypeOK
    <2>3. req'[r].op = "Rotate"
      BY <1>5 DEF Rotate, Call, TypeOK, Idle
    <2>4. QED
      BY <2>1, <2>2, <2>3, CodesStay DEF TypeOK
  <1>6. ASSUME NEW r \in Request, ClientSaved(r) \/ AuthCodeSaved(r) \/ TokensSaved(r) \/ RevocationSaved(r)
        PROVE  CodesAgree'
    <2>1. mem' = mem /\ disk' = mem /\ exchanged' = exchanged /\ drawn' = drawn
      BY <1>6 DEF ClientSaved, AuthCodeSaved, TokensSaved, RevocationSaved, Saved, historyVars
    <2>2. \A q \in Request : q # r => req'[q] = req[q]
      BY <1>6 DEF ClientSaved, AuthCodeSaved, TokensSaved, RevocationSaved, Saved, TypeOK
    <2>3. req'[r] = Idle
      BY <1>6 DEF ClientSaved, AuthCodeSaved, TokensSaved, RevocationSaved, Saved, TypeOK
    <2>4. QED
      BY <2>1, <2>2, <2>3, CodesStay DEF TypeOK, Idle
  <1>7. ASSUME NEW r \in Request, AuthCodeTaken(r)
        PROVE  CodesAgree'
    <2> DEFINE k == req[r].code
    <2>1. /\ mem' = mem /\ disk' = mem /\ drawn' = drawn
          /\ exchanged' = [exchanged EXCEPT ![k] = @ + 1]
          /\ req[r].pc = "saving" /\ req[r].op = "TakeAuthCode"
      BY <1>7 DEF AuthCodeTaken, Saved
    <2>2. k \in Code
      BY <2>1 DEF Phases
    <2>3. mem.codes[k] = NoClient /\ exchanged[k] = 0 /\ k <= drawn.codes
      BY <2>1 DEF CodesAgree
    <2>4. \A q \in Request : req'[q].pc # "saving"
      BY <1>7, <2>1 DEF AuthCodeTaken, Saved, TypeOK, RequestRecord
    <2> HIDE DEF k
    <2>5. exchanged'[k] = 1 /\ \A j \in Code : j # k => exchanged'[j] = exchanged[j]
      BY <2>1, <2>2, <2>3 DEF TypeOK
    <2>6. CodesFit(mem)' /\ CodesFit(disk)'
      BY <2>1, <2>3, <2>5 DEF CodesAgree, CodesFit
    <2>7. \A j \in Code : exchanged'[j] <= 1 /\ (exchanged'[j] > 0 => j <= drawn'.codes)
      BY <2>1, <2>3, <2>5 DEF CodesAgree
    <2>8. QED
      BY <2>4, <2>6, <2>7 DEF CodesAgree
  <1>8. ASSUME NEW r \in Request, SaveFails(r) \/ RefuseTokens(r)
        PROVE  CodesAgree'
    <2>1. mem' = mem /\ disk' = disk /\ exchanged' = exchanged /\ drawn' = drawn
      BY <1>8 DEF SaveFails, RefuseTokens, storeVars, historyVars
    <2>2. \A q \in Request : q # r => req'[q] = req[q]
      BY <1>8 DEF SaveFails, RefuseTokens, TypeOK
    <2>3. req'[r] = Idle
      BY <1>8 DEF SaveFails, RefuseTokens, TypeOK
    <2>4. QED
      BY <2>1, <2>2, <2>3, CodesStay DEF TypeOK, Idle
  <1>9. ASSUME Crash
        PROVE  CodesAgree'
    <2>1. mem' = mem /\ disk' \in {mem, disk} /\ exchanged' = exchanged /\ drawn' = drawn
      BY <1>9 DEF Crash
    <2>2. \A q \in Request : req'[q] = Idle
      BY <1>9 DEF Crash
    <2>3. QED
      BY <2>1, <2>2, CodesStay DEF TypeOK, Idle
  <1>10. ASSUME Load
         PROVE  CodesAgree'
    <2>1. mem' \in {mem, disk, NewStore({})} /\ disk' = disk /\ exchanged' = exchanged
          /\ drawn' = drawn /\ req' = req
      BY <1>10 DEF Load
    <2>2. CodesFit(mem)' /\ CodesFit(disk)'
      BY <2>1 DEF CodesAgree, CodesFit, NewStore
    <2>3. \A q \in Request : req[q].pc # "saving"
      BY <1>10 DEF Load, Phases
    <2>4. QED
      BY <2>1, <2>2, <2>3 DEF CodesAgree
  <1>11. ASSUME CodeExpires \/ TokenExpires
         PROVE  CodesAgree'
    BY <1>11, CodesStay DEF CodeExpires, TokenExpires, storeVars, historyVars, TypeOK
  <1>12. ASSUME NEW r \in Request, IssueTokens(r)
        PROVE  CodesAgree'
    <2>1. /\ mem'.codes = mem.codes /\ disk' = disk /\ exchanged' = exchanged
          /\ drawn'.codes = drawn.codes
      BY <1>12 DEF IssueTokens, Call, TypeOK, Content
    <2>2. \A q \in Request : q # r => req'[q] = req[q]
      BY <1>12 DEF IssueTokens, Call, TypeOK
    <2>3. req'[r].op = "CreateFamily"
      BY <1>12 DEF IssueTokens, Call, TypeOK, Idle
    <2>4. QED
      BY <2>1, <2>2, <2>3, CodesStay DEF TypeOK
  <1>13. ASSUME NEW r \in Request, NEW f \in Family, RevokeFamily(r, f)
         PROVE  CodesAgree'
    <2>1. mem'.codes = mem.codes /\ disk' = disk /\ exchanged' = exchanged /\ drawn' = drawn
      BY <1>13 DEF RevokeFamily, Call, TypeOK, Content
    <2>2. \A q \in Request : q # r => req'[q] = req[q]
      BY <1>13 DEF RevokeFamily, Call, TypeOK
    <2>3. req'[r].op = "RevokeFamily"
      BY <1>13 DEF RevokeFamily, Call, TypeOK, Idle
    <2>4. QED
      BY <2>1, <2>2, <2>3, CodesStay DEF TypeOK
  <1>14. ASSUME NEW r \in Request, NEW f \in Family, NEW t \in Token, Replay(r, f, t)
        PROVE  CodesAgree'
    <2>1. /\ mem'.codes = mem.codes /\ disk' = disk /\ exchanged' = exchanged
          /\ drawn'.codes = drawn.codes
      BY <1>14 DEF Replay, Call, TypeOK, Content
    <2>2. \A q \in Request : q # r => req'[q] = req[q]
      BY <1>14 DEF Replay, Call, TypeOK
    <2>3. req'[r].op = "Replay"
      BY <1>14 DEF Replay, Call, TypeOK, Idle
    <2>4. QED
      BY <2>1, <2>2, <2>3, CodesStay DEF TypeOK
  <1>15. QED
    BY <1>1, <1>2, <1>3, <1>4, <1>5, <1>6, <1>7, <1>8, <1>9, <1>10, <1>11, <1>12, <1>13, <1>14
       DEF Next, Answer

(* Families and their tokens.  Who has a call on a family holds the mutex.   *)
LEMMA OnlyHolder ==
  ASSUME TypeOK, Phases
  PROVE  \A q \in Request : req[q].op \in FamilyOp => mu = q
  BY DEF TypeOK, Phases

(* A step that leaves families alone, though it may write the file.          *)
LEMMA FamiliesStay ==
  ASSUME FamiliesAgree, mem'.families = mem.families,
         disk'.families \in {mem.families, disk.families},
         standing' = standing, drawn'.families = drawn.families,
         drawn'.tokens = drawn.tokens, sent'.tokens = sent.tokens,
         \A q \in Request : req'[q].op \in FamilyOp => req'[q] = req[q]
  PROVE  FamiliesAgree'
  <1>1. \A f \in Family : FamilyFits(mem, f)' /\ FamilyFits(disk, f)'
    BY DEF FamiliesAgree, FamilyFits
  <1>2. \A q \in Request : CallFits(q)'
    BY DEF FamiliesAgree, CallFits, FamilyOp
  <1>3. QED
    BY <1>1, <1>2 DEF FamiliesAgree

LEMMA NoCallFits ==
  ASSUME NEW q \in Request, req'[q].op \notin FamilyOp
  PROVE  CallFits(q)'
  BY DEF CallFits, FamilyOp

(* The token in a family that may rotate, presented by a user agent it was   *)
(* sent to, is in force by an answer.                                        *)
LEMMA PresentedIsStanding ==
  ASSUME TypeOK, FamiliesAgree, NEW f \in Family, NEW t \in Token,
         <<f, t>> \in sent.tokens, MayRotate(f, t)
  PROVE  /\ standing[f] \in Token /\ t <= standing[f]
         /\ mem.families[f].current >= standing[f]
         /\ mem.families[f] \in FamilyRecord /\ ~mem.families[f].revoked
         /\ f <= drawn.families
  <1> USE IDs
  <1>1. mem.families[f] \in FamilyRecord /\ ~mem.families[f].revoked /\ mem.families[f] # Absent
    BY DEF MayRotate, TypeOK, Content
  <1>2. standing[f] # Revoked
    BY <1>1 DEF FamiliesAgree, FamilyFits
  <1>3. t <= standing[f]
    BY <1>2 DEF FamiliesAgree
  <1>4. standing[f] \in Token
    BY <1>2, <1>3 DEF TypeOK, None, Token
  <1>5. f <= drawn.families
    <2>1. drawn.families \in Nat /\ f \in Nat
      BY DEF TypeOK
    <2>2. ~(f > drawn.families)
      BY <1>1 DEF FamiliesAgree, FamilyFits
    <2>3. QED
      BY <2>1, <2>2
  <1>6. QED
    BY <1>1, <1>3, <1>4, <1>5 DEF FamiliesAgree, FamilyFits

LEMMA IssueTokensFamilies ==
  ASSUME TypeOK, Phases, FamiliesAgree, NEW r \in Request, IssueTokens(r)
  PROVE  FamiliesAgree'
  <1> USE IDs
  <1> DEFINE f == drawn.families + 1
             t == drawn.tokens + 1
             new == [current |-> t, revoked |-> FALSE]
  <1>1. /\ f \in Family /\ t \in Token /\ drawn'.families = f /\ drawn'.tokens = t
        /\ mem'.families = [mem.families EXCEPT ![f] = new]
        /\ disk' = disk /\ standing' = standing /\ sent' = sent
    BY DEF IssueTokens, Call, TypeOK, Content
  <1>2. /\ req'[r].op = "CreateFamily" /\ req'[r].family = f /\ req'[r].next = t
        /\ \A q \in Request : q # r => req'[q] = req[q]
    BY DEF IssueTokens, Call, TypeOK, Idle
  <1>3. \A q \in Request : q # r => req'[q].op \notin FamilyOp
    BY <1>2, OnlyHolder DEF IssueTokens, Call
  <1>4. /\ drawn.families \in Nat /\ drawn.tokens \in Nat /\ f > drawn.families
        /\ drawn.tokens <= t /\ drawn.families <= f
    BY DEF TypeOK
  <1>5. /\ mem'.families[f] = new
        /\ \A g \in Family : g # f => mem'.families[g] = mem.families[g]
    BY <1>1 DEF TypeOK, Content
  <1>6. standing[f] = None /\ disk.families[f] = Absent
    BY <1>1, <1>4 DEF FamiliesAgree, FamilyFits
  <1>7. \A g \in Family : /\ mem.families[g] \in FamilyRecord /\ disk.families[g] \in FamilyRecord
    BY DEF TypeOK, Content
  <1>8. \A g \in Family : g > f => g > drawn.families
    BY <1>1, <1>4
  <1>9. \A c \in Token \cup {None} : c <= drawn.tokens => c <= t
    BY <1>1, <1>4 DEF None
  <1> HIDE DEF f, t
  <1>10. \A g \in Family : FamilyFits(mem, g)'
    <2> SUFFICES ASSUME NEW g \in Family PROVE FamilyFits(mem, g)'
      OBVIOUS
    <2>1. CASE g = f
      BY <2>1, <1>1, <1>5, <1>6 DEF FamilyFits
    <2>2. CASE g # f
      BY <2>2, <1>1, <1>5, <1>7, <1>8, <1>9 DEF FamiliesAgree, FamilyFits, FamilyRecord
    <2>3. QED
      BY <2>1, <2>2
  <1>11. \A g \in Family : FamilyFits(disk, g)'
    BY <1>1, <1>7, <1>8, <1>9 DEF FamiliesAgree, FamilyFits, FamilyRecord
  <1>12. \A g \in Family : g > f => standing[g] = None
    BY <1>8 DEF FamiliesAgree
  <1>13. CallFits(r)'
    <2>1. f <= f /\ t <= t
      BY <1>1 DEF Family, Token
    <2>2. QED
      BY <1>1, <1>2, <1>5, <1>6, <2>1 DEF CallFits
  <1>14. \A q \in Request : CallFits(q)'
    BY <1>3, <1>13, NoCallFits
  <1>15. QED
    BY <1>1, <1>10, <1>11, <1>12, <1>14 DEF FamiliesAgree

LEMMA NextToken ==
  ASSUME NEW rec \in FamilyRecord, ~rec.revoked, NEW u
  PROVE  [rec EXCEPT !.current = u] = [current |-> u, revoked |-> FALSE]
  <1>1. rec.revoked = FALSE
    BY DEF FamilyRecord
  <1>2. [rec EXCEPT !.current = u] = [current |-> u, revoked |-> rec.revoked]
    BY DEF FamilyRecord
  <1>3. QED
    BY <1>1, <1>2, Zenon

LEMMA RotateFamilies ==
  ASSUME TypeOK, Phases, FamiliesAgree, NEW r \in Request, NEW f \in Family, NEW t \in Token,
         Rotate(r, f, t)
  PROVE  FamiliesAgree' /\ standing[f] = t
  <1> USE IDs
  <1> DEFINE u == drawn.tokens + 1
             new == [current |-> u, revoked |-> FALSE]
  <1>1. /\ u \in Token /\ drawn'.families = drawn.families /\ drawn'.tokens = u
        /\ mem'.families = [mem.families EXCEPT ![f].current = u]
        /\ disk' = disk /\ standing' = standing /\ sent' = sent
    BY DEF Rotate, Call, TypeOK, Content
  <1>2. /\ req'[r].op = "Rotate" /\ req'[r].family = f /\ req'[r].next = u
        /\ req'[r].presented = t /\ \A q \in Request : q # r => req'[q] = req[q]
    BY DEF Rotate, Call, TypeOK, Idle
  <1>3. \A q \in Request : q # r => req'[q].op \notin FamilyOp
    BY <1>2, OnlyHolder DEF Rotate, Call
  <1>4. /\ standing[f] \in Token /\ standing[f] = t /\ f <= drawn.families
        /\ mem.families[f] \in FamilyRecord /\ ~mem.families[f].revoked
        /\ mem.families[f].current = t
    <2>1. mem.families[f].current = t
      BY DEF Rotate
    <2>2. standing[f] \in Token /\ t <= standing[f] /\ mem.families[f].current >= standing[f]
      BY PresentedIsStanding DEF Rotate
    <2>3. standing[f] = t
      BY <2>1, <2>2 DEF Token
    <2>4. QED
      BY <2>1, <2>2, <2>3, PresentedIsStanding DEF Rotate
  <1>5. /\ mem'.families[f] = new
        /\ \A g \in Family : g # f => mem'.families[g] = mem.families[g]
    <2>3. [mem.families[f] EXCEPT !.current = u] = new
      BY <1>4, NextToken
    <2>4. QED
      BY <1>1, <2>3 DEF TypeOK, Content
  <1>6. drawn.tokens \in Nat /\ t <= drawn.tokens /\ t < u
    BY <1>4 DEF TypeOK, FamiliesAgree, FamilyFits
  <1>7. \A g \in Family : /\ mem.families[g] \in FamilyRecord /\ disk.families[g] \in FamilyRecord
    BY DEF TypeOK, Content
  <1>8. \A c \in Token \cup {None} : c <= drawn.tokens => c <= u
    BY <1>6 DEF None, Token
  <1>9. u >= t /\ u <= u /\ ~(f > drawn.families)
    BY <1>1, <1>4, <1>6 DEF TypeOK
  <1> HIDE DEF u
  <1>10. \A g \in Family : FamilyFits(mem, g)'
    <2> SUFFICES ASSUME NEW g \in Family PROVE FamilyFits(mem, g)'
      OBVIOUS
    <2>1. CASE g = f
      BY <2>1, <1>1, <1>4, <1>5, <1>9 DEF FamilyFits
    <2>2. CASE g # f
      BY <2>2, <1>1, <1>5, <1>7, <1>8 DEF FamiliesAgree, FamilyFits, FamilyRecord
    <2>3. QED
      BY <2>1, <2>2
  <1>11. \A g \in Family : FamilyFits(disk, g)'
    BY <1>1, <1>7, <1>8 DEF FamiliesAgree, FamilyFits, FamilyRecord
  <1>14. CallFits(r)'
    BY <1>1, <1>2, <1>4, <1>5, <1>6, <1>9 DEF CallFits
  <1>15. \A q \in Request : CallFits(q)'
    BY <1>3, <1>14, NoCallFits
  <1>12. FamiliesAgree'
    BY <1>1, <1>10, <1>11, <1>15 DEF FamiliesAgree
  <1>13. QED
    BY <1>4, <1>12

(* A replay and a revocation by an administrator change the same field.      *)
LEMMA RevokingFamilies ==
  ASSUME TypeOK, Phases, FamiliesAgree, NEW r \in Request, NEW f \in Family,
         NEW request, request.op \in {"Replay", "RevokeFamily"}, request.family = f,
         Call(r, [mem EXCEPT !.families[f].revoked = TRUE], request),
         drawn' = drawn, mem.families[f] # Absent, ~mem.families[f].revoked
  PROVE  FamiliesAgree'
  <1> USE IDs
  <1>1. /\ mem'.families = [mem.families EXCEPT ![f].revoked = TRUE]
        /\ disk' = disk /\ standing' = standing /\ sent' = sent
    BY DEF Call, TypeOK, Content
  <1>2. req'[r] = request /\ \A q \in Request : q # r => req'[q] = req[q]
    BY DEF Call, TypeOK
  <1>3. \A q \in Request : q # r => req'[q].op \notin FamilyOp
    BY <1>2, OnlyHolder DEF Call
  <1>4. mem.families[f] \in FamilyRecord
    BY DEF TypeOK, Content
  <1>5. /\ mem'.families[f].current = mem.families[f].current /\ mem'.families[f].revoked
        /\ \A g \in Family : g # f => mem'.families[g] = mem.families[g]
    BY <1>1, <1>4 DEF TypeOK, Content, FamilyRecord
  <1>6. standing[f] # Revoked /\ ~(f > drawn.families)
    BY DEF FamiliesAgree, FamilyFits
  <1>7. f <= drawn.families
    BY <1>6 DEF TypeOK
  <1>8. \A g \in Family : FamilyFits(mem, g)'
    <2> SUFFICES ASSUME NEW g \in Family PROVE FamilyFits(mem, g)'
      OBVIOUS
    <2>1. CASE g = f
      BY <2>1, <1>1, <1>5, <1>6 DEF FamiliesAgree, FamilyFits
    <2>2. CASE g # f
      BY <2>2, <1>1, <1>5 DEF FamiliesAgree, FamilyFits
    <2>3. QED
      BY <2>1, <2>2
  <1>9. \A g \in Family : FamilyFits(disk, g)'
    BY <1>1 DEF FamiliesAgree, FamilyFits
  <1>10. CallFits(r)'
    BY <1>1, <1>2, <1>5, <1>6, <1>7 DEF CallFits
  <1>11. \A q \in Request : CallFits(q)'
    BY <1>3, <1>10, NoCallFits
  <1>12. QED
    BY <1>1, <1>8, <1>9, <1>11 DEF FamiliesAgree

(* The answer about a family: what memory has is in the file as well.        *)
LEMMA TokensSavedFamilies ==
  ASSUME TypeOK, Phases, FamiliesAgree, NEW r \in Request, TokensSaved(r)
  PROVE  FamiliesAgree'
  <1> USE IDs
  <1> DEFINE f == req[r].family
             t == req[r].next
  <1>1. /\ req[r].pc = "saving" /\ req[r].op \in {"CreateFamily", "Rotate"}
        /\ mem' = mem /\ disk' = mem /\ drawn' = drawn
        /\ standing' = [standing EXCEPT ![f] = t]
        /\ sent' \in {sent, [sent EXCEPT !.tokens = @ \cup {<<f, t>>}]}
        /\ req' = [req EXCEPT ![r] = Idle]
    BY DEF TokensSaved, Saved
  <1>2. f \in Family /\ t \in Token /\ req[r].op \in FamilyOp
    BY <1>1 DEF Phases, FamilyOp
  <1>3. CallFits(r)
    BY DEF FamiliesAgree
  <1>4. /\ mem.families[f] = [current |-> t, revoked |-> FALSE] /\ t <= drawn.tokens
        /\ standing[f] # Revoked /\ f <= drawn.families
        /\ standing[f] = None \/ standing[f] < t
    BY <1>1, <1>2, <1>3 DEF CallFits
  <1> HIDE DEF f, t
  <1>5. standing'[f] = t /\ \A g \in Family : g # f => standing'[g] = standing[g]
    BY <1>1, <1>2 DEF TypeOK
  <1>6. ~(f > drawn.families) /\ t >= t /\ t <= t /\ drawn.families \in Nat
    BY <1>2, <1>4 DEF TypeOK
  <1>7. \A g \in Family : FamilyFits(mem, g)' /\ FamilyFits(disk, g)'
    <2> SUFFICES ASSUME NEW g \in Family PROVE FamilyFits(mem, g)' /\ FamilyFits(disk, g)'
      OBVIOUS
    <2>1. CASE g = f
      BY <2>1, <1>1, <1>2, <1>4, <1>5, <1>6 DEF FamilyFits
    <2>2. CASE g # f
      BY <2>2, <1>1, <1>5 DEF FamiliesAgree, FamilyFits
    <2>3. QED
      BY <2>1, <2>2
  <1>8. \A g \in Family : g > drawn'.families => standing'[g] = None
    <2> SUFFICES ASSUME NEW g \in Family, g > drawn'.families PROVE standing'[g] = None
      OBVIOUS
    <2>1. g # f
      BY <1>1, <1>6
    <2>2. QED
      BY <2>1, <1>1, <1>5 DEF FamiliesAgree
  <1>9. \A g \in Family, u \in Token :
            <<g, u>> \in sent'.tokens /\ standing'[g] # Revoked => u <= standing'[g]
    <2> SUFFICES ASSUME NEW g \in Family, NEW u \in Token, <<g, u>> \in sent'.tokens,
                        standing'[g] # Revoked
                 PROVE  u <= standing'[g]
      OBVIOUS
    <2>1. <<g, u>> \in sent.tokens \/ (g = f /\ u = t)
      BY <1>1 DEF TypeOK
    <2>2. CASE g # f
      BY <2>1, <2>2, <1>5 DEF FamiliesAgree
    <2>3. CASE g = f /\ u = t
      BY <2>3, <1>5, <1>6
    <2>4. CASE g = f /\ <<g, u>> \in sent.tokens
      <3>1. u <= standing[f]
        BY <2>4, <1>4 DEF FamiliesAgree
      <3>2. standing[f] # None
        BY <3>1 DEF None
      <3>3. standing[f] \in Token /\ standing[f] < t
        BY <3>2, <1>2, <1>4 DEF TypeOK
      <3>4. u \in Nat /\ standing[f] \in Nat /\ t \in Nat
        BY <3>3, <1>2
      <3>5. u <= t
        BY <3>1, <3>3, <3>4
      <3>6. QED
        BY <3>5, <2>4, <1>5
    <2>5. QED
      BY <2>1, <2>2, <2>3, <2>4
  <1>10. \A q \in Request : req'[q].op \notin FamilyOp
    <2>1. \A q \in Request : q # r => req[q].op \notin FamilyOp
      BY <1>1, OnlyHolder DEF TypeOK
    <2>2. QED
      BY <1>1, <2>1 DEF TypeOK, Idle, FamilyOp
  <1>11. \A q \in Request : CallFits(q)'
    BY <1>10, NoCallFits
  <1>12. QED
    BY <1>7, <1>8, <1>9, <1>11 DEF FamiliesAgree

LEMMA RevocationSavedFamilies ==
  ASSUME TypeOK, Phases, FamiliesAgree, NEW r \in Request, RevocationSaved(r)
  PROVE  FamiliesAgree'
  <1> USE IDs
  <1> DEFINE f == req[r].family
  <1>1. /\ req[r].pc = "saving" /\ req[r].op \in {"Replay", "RevokeFamily"}
        /\ mem' = mem /\ disk' = mem /\ drawn' = drawn /\ sent' = sent
        /\ standing' = [standing EXCEPT ![f] = Revoked]
        /\ req' = [req EXCEPT ![r] = Idle]
    BY DEF RevocationSaved, Saved
  <1>2. f \in Family /\ req[r].op \in FamilyOp
    BY <1>1 DEF Phases, FamilyOp
  <1>3. CallFits(r)
    BY DEF FamiliesAgree
  <1>4. mem.families[f].revoked /\ f <= drawn.families
    BY <1>1, <1>2, <1>3 DEF CallFits
  <1> HIDE DEF f
  <1>5. standing'[f] = Revoked /\ \A g \in Family : g # f => standing'[g] = standing[g]
    BY <1>1, <1>2 DEF TypeOK
  <1>6. ~(f > drawn.families)
    BY <1>2, <1>4 DEF TypeOK
  <1>7. \A g \in Family : FamilyFits(mem, g)' /\ FamilyFits(disk, g)'
    <2> SUFFICES ASSUME NEW g \in Family PROVE FamilyFits(mem, g)' /\ FamilyFits(disk, g)'
      OBVIOUS
    <2>1. CASE g = f
      BY <2>1, <1>1, <1>4, <1>5 DEF FamilyFits, FamiliesAgree
    <2>2. CASE g # f
      BY <2>2, <1>1, <1>5 DEF FamiliesAgree, FamilyFits
    <2>3. QED
      BY <2>1, <2>2
  <1>8. \A g \in Family : g > drawn'.families => standing'[g] = None
    <2> SUFFICES ASSUME NEW g \in Family, g > drawn'.families PROVE standing'[g] = None
      OBVIOUS
    <2>1. g # f
      BY <1>1, <1>6
    <2>2. QED
      BY <2>1, <1>1, <1>5 DEF FamiliesAgree
  <1>9. \A g \in Family, u \in Token :
            <<g, u>> \in sent'.tokens /\ standing'[g] # Revoked => u <= standing'[g]
    BY <1>1, <1>5 DEF FamiliesAgree
  <1>10. \A q \in Request : req'[q].op \notin FamilyOp
    <2>1. \A q \in Request : q # r => req[q].op \notin FamilyOp
      BY <1>1, OnlyHolder DEF TypeOK
    <2>2. QED
      BY <1>1, <2>1 DEF TypeOK, Idle, FamilyOp
  <1>11. \A q \in Request : CallFits(q)'
    BY <1>10, NoCallFits
  <1>12. QED
    BY <1>7, <1>8, <1>9, <1>11 DEF FamiliesAgree

LEMMA LoadFamilies ==
  ASSUME TypeOK, Phases, FamiliesAgree, Load
  PROVE  FamiliesAgree'
  <1> USE IDs
  <1>1. /\ mem' \in {mem, disk, NewStore({})} /\ disk' = disk /\ drawn' = drawn
        /\ req' = req /\ standing' = standing /\ sent' = sent
    BY DEF Load
  <1>2. \A q \in Request : req[q].op \notin FamilyOp
    BY OnlyHolder DEF Load, Phases
  <1>3. \A g \in Family : NewStore({}).families[g] = Absent
    BY DEF NewStore
  <1>4. Absent.current = None /\ None <= drawn.tokens
    BY DEF Absent, None, TypeOK
  <1>5. \A g \in Family : FamilyFits(mem, g)' /\ FamilyFits(disk, g)'
    <2> SUFFICES ASSUME NEW g \in Family PROVE FamilyFits(mem, g)' /\ FamilyFits(disk, g)'
      OBVIOUS
    <2>1. CASE mem' = NewStore({})
      BY <2>1, <1>1, <1>3, <1>4 DEF FamiliesAgree, FamilyFits
    <2>2. CASE mem' \in {mem, disk}
      BY <2>2, <1>1 DEF FamiliesAgree, FamilyFits
    <2>3. QED
      BY <1>1, <2>1, <2>2
  <1>6. \A q \in Request : CallFits(q)'
    BY <1>1, <1>2, NoCallFits
  <1>7. QED
    BY <1>1, <1>5, <1>6 DEF FamiliesAgree

LEMMA FamiliesStep ==
  ASSUME TypeOK, Phases, FamiliesAgree, Next
  PROVE  FamiliesAgree'
  <1>1. ASSUME NEW r \in Request, NEW c \in Client, RegisterClient(r, c)
        PROVE  FamiliesAgree'
    BY <1>1, FamiliesStay DEF RegisterClient, Call, TypeOK, Content, Idle, FamilyOp
  <1>2. ASSUME NEW r \in Request, NEW c \in Client, Authorize(r, c)
        PROVE  FamiliesAgree'
    BY <1>2, FamiliesStay DEF Authorize, Call, TypeOK, Content, Idle, FamilyOp
  <1>3. ASSUME NEW r \in Request, NEW c \in Client, LegacyRefreshToken(r, c)
        PROVE  FamiliesAgree'
    BY <1>3, FamiliesStay DEF LegacyRefreshToken, storeVars, historyVars, TypeOK, Idle, FamilyOp
  <1>4. ASSUME NEW r \in Request, NEW k \in Code, AuthorizationCodeToken(r, k)
        PROVE  FamiliesAgree'
    BY <1>4, FamiliesStay DEF AuthorizationCodeToken, Call, TypeOK, Content, Idle, FamilyOp
  <1>5. ASSUME NEW r \in Request, NEW f \in Family, RevokeFamily(r, f)
        PROVE  FamiliesAgree'
    <2>1. PICK request : /\ request.op = "RevokeFamily" /\ request.family = f
                         /\ Call(r, [mem EXCEPT !.families[f].revoked = TRUE], request)
      BY <1>5 DEF RevokeFamily, Idle
    <2>2. QED
      BY <1>5, <2>1, RevokingFamilies DEF RevokeFamily
  <1>6. ASSUME NEW r \in Request, NEW f \in Family, NEW t \in Token, Rotate(r, f, t)
        PROVE  FamiliesAgree'
    BY <1>6, RotateFamilies
  <1>7. ASSUME NEW r \in Request, NEW f \in Family, NEW t \in Token, Replay(r, f, t)
        PROVE  FamiliesAgree'
    <2>1. PICK request : /\ request.op = "Replay" /\ request.family = f
                         /\ Call(r, [mem EXCEPT !.families[f].revoked = TRUE], request)
      BY <1>7 DEF Replay, Idle
    <2>2. QED
      BY <1>7, <2>1, RevokingFamilies DEF Replay, MayRotate
  <1>8. ASSUME NEW r \in Request, ClientSaved(r) \/ AuthCodeSaved(r)
        PROVE  FamiliesAgree'
    BY <1>8, FamiliesStay DEF ClientSaved, AuthCodeSaved, Saved, historyVars, TypeOK, Idle, FamilyOp
  <1>9. ASSUME NEW r \in Request, AuthCodeTaken(r)
        PROVE  FamiliesAgree'
    BY <1>9, FamiliesStay DEF AuthCodeTaken, Saved, TypeOK, RequestRecord, FamilyOp
  <1>10. ASSUME NEW r \in Request, TokensSaved(r)
         PROVE  FamiliesAgree'
    BY <1>10, TokensSavedFamilies
  <1>11. ASSUME NEW r \in Request, RevocationSaved(r)
         PROVE  FamiliesAgree'
    BY <1>11, RevocationSavedFamilies
  <1>12. ASSUME NEW r \in Request, SaveFails(r)
         PROVE  FamiliesAgree'
    BY <1>12, FamiliesStay DEF SaveFails, TypeOK, Idle, FamilyOp
  <1>13. ASSUME NEW r \in Request, IssueTokens(r)
         PROVE  FamiliesAgree'
    BY <1>13, IssueTokensFamilies
  <1>14. ASSUME NEW r \in Request, RefuseTokens(r)
         PROVE  FamiliesAgree'
    BY <1>14, FamiliesStay DEF RefuseTokens, storeVars, historyVars, TypeOK, Idle, FamilyOp
  <1>15. ASSUME Crash
         PROVE  FamiliesAgree'
    BY <1>15, FamiliesStay DEF Crash, Idle, FamilyOp
  <1>16. ASSUME Load
         PROVE  FamiliesAgree'
    BY <1>16, LoadFamilies
  <1>17. ASSUME CodeExpires \/ TokenExpires
         PROVE  FamiliesAgree'
    BY <1>17, FamiliesStay DEF CodeExpires, TokenExpires, storeVars, historyVars
  <1>18. QED
    BY <1>1, <1>2, <1>3, <1>4, <1>5, <1>6, <1>7, <1>8, <1>9, <1>10, <1>11, <1>12, <1>13,
       <1>14, <1>15, <1>16, <1>17 DEF Next, Answer

(* What was answered about tokens is kept.  A step that leaves families alone *)
(* may end a call, but only with the family in doubt.                        *)
LEMMA TokensStay ==
  ASSUME TokensAreKept, mem'.families = mem.families, standing' = standing,
         doubt \subseteq doubt', server' = "up" => server = "up",
         \/ disk'.families = disk.families
         \/ /\ disk'.families = mem.families /\ server = "up"
            /\ \A f \in Family \ doubt' : ~InCall(f),
         \A f \in Family \ doubt' : InCall(f) => InCall(f)',
         \A q \in Request : req'[q].op \in {"Rotate", "Replay"} => req'[q] = req[q]
  PROVE  TokensAreKept'
  <1>1. \A f \in Family \ doubt' : Honoured(disk, f)'
    BY DEF TokensAreKept, Honoured
  <1>2. \A f \in Family \ doubt' : server' = "up" /\ ~InCall(f)' => Honoured(mem, f)'
    BY DEF TokensAreKept, Honoured
  <1>3. NoFalseReplay'
    BY DEF TokensAreKept, NoFalseReplay
  <1>4. QED
    BY <1>1, <1>2, <1>3 DEF TokensAreKept

(* A step begins or ends the call on family f, with the answers about the     *)
(* others as they were.                                                      *)
LEMMA TokensChange ==
  ASSUME TypeOK, TokensAreKept, NEW f \in Family, server = "up", doubt' = doubt,
         \A g \in Family : ~InCall(g) \/ g = f,
         \A g \in Family : g # f => /\ mem'.families[g] = mem.families[g]
                                   /\ disk'.families[g] \in {mem.families[g], disk.families[g]}
                                   /\ standing'[g] = standing[g],
         Honoured(disk, f)' \/ f \in doubt,
         InCall(f)' \/ Honoured(mem, f)' \/ f \in doubt,
         NoFalseReplay'
  PROVE  TokensAreKept'
  <1>1. \A g \in Family \ doubt : g # f => Honoured(mem, g) /\ Honoured(disk, g)
    BY DEF TokensAreKept
  <1>2. \A g \in Family \ doubt : g # f => Honoured(mem, g)' /\ Honoured(disk, g)'
    BY <1>1 DEF Honoured
  <1>3. QED
    BY <1>2 DEF TokensAreKept

LEMMA RotateTokens ==
  ASSUME TypeOK, Phases, FamiliesAgree, TokensAreKept, NEW r \in Request,
         NEW f \in Family, NEW t \in Token, Rotate(r, f, t)
  PROVE  TokensAreKept'
  <1>1. /\ mu = NoRequest /\ mu' = r /\ doubt' = doubt /\ server = "up"
        /\ disk' = disk /\ standing' = standing
        /\ \A g \in Family : g # f => mem'.families[g] = mem.families[g]
    BY DEF Rotate, Handles, Call, TypeOK, Content
  <1>2. /\ req'[r].op = "Rotate" /\ req'[r].family = f /\ req'[r].presented = t
        /\ \A q \in Request : q # r => req'[q] = req[q]
    BY DEF Rotate, Call, TypeOK, Idle
  <1>3. \A q \in Request : q # r => req'[q].op \notin FamilyOp
    BY <1>1, <1>2, OnlyHolder, OAuthAssumption
  <1>4. standing[f] = t
    BY RotateFamilies
  <1>5. NoFalseReplay'
    BY <1>1, <1>2, <1>3, <1>4 DEF NoFalseReplay, FamilyOp
  <1>6. \A g \in Family : ~InCall(g)
    BY <1>1 DEF InCall
  <1>7. InCall(f)'
    BY <1>1, <1>2, OAuthAssumption DEF InCall, FamilyOp
  <1>8. Honoured(disk, f)' \/ f \in doubt
    BY <1>1 DEF TokensAreKept, Honoured
  <1>9. QED
    BY <1>1, <1>5, <1>6, <1>7, <1>8, TokensChange

LEMMA ReplayTokens ==
  ASSUME TypeOK, Phases, FamiliesAgree, TokensAreKept, NEW r \in Request,
         NEW f \in Family, NEW t \in Token, Replay(r, f, t)
  PROVE  TokensAreKept'
  <1>1. /\ mu = NoRequest /\ mu' = r /\ doubt' = doubt /\ server = "up"
        /\ disk' = disk /\ standing' = standing
        /\ \A g \in Family : g # f => mem'.families[g] = mem.families[g]
    BY DEF Replay, Handles, Call, TypeOK, Content
  <1>2. /\ req'[r].op = "Replay" /\ req'[r].family = f /\ req'[r].presented = t
        /\ \A q \in Request : q # r => req'[q] = req[q]
    BY DEF Replay, Call, TypeOK, Idle
  <1>3. \A q \in Request : q # r => req'[q].op \notin FamilyOp
    BY <1>1, <1>2, OnlyHolder, OAuthAssumption
  <1>6. \A g \in Family : ~InCall(g)
    BY <1>1 DEF InCall
  <1>4. f \notin doubt => t # standing[f]
    <2>1. standing[f] \in Token /\ mem.families[f].current # t
      BY PresentedIsStanding DEF Replay
    <2>2. f \notin doubt => Honoured(mem, f)
      BY <1>1, <1>6 DEF TokensAreKept
    <2>3. QED
      BY <2>1, <2>2 DEF Honoured
  <1>5. NoFalseReplay'
    BY <1>1, <1>2, <1>3, <1>4 DEF NoFalseReplay, FamilyOp
  <1>7. InCall(f)'
    BY <1>1, <1>2, OAuthAssumption DEF InCall, FamilyOp
  <1>8. Honoured(disk, f)' \/ f \in doubt
    BY <1>1 DEF TokensAreKept, Honoured
  <1>9. QED
    BY <1>1, <1>5, <1>6, <1>7, <1>8, TokensChange

LEMMA RevokeFamilyTokens ==
  ASSUME TypeOK, Phases, TokensAreKept, NEW r \in Request, NEW f \in Family,
         RevokeFamily(r, f)
  PROVE  TokensAreKept'
  <1>1. /\ mu = NoRequest /\ mu' = r /\ doubt' = doubt /\ server = "up"
        /\ disk' = disk /\ standing' = standing
        /\ \A g \in Family : g # f => mem'.families[g] = mem.families[g]
    BY DEF RevokeFamily, Handles, Call, TypeOK, Content
  <1>2. /\ req'[r].op = "RevokeFamily" /\ req'[r].family = f
        /\ \A q \in Request : q # r => req'[q] = req[q]
    BY DEF RevokeFamily, Call, TypeOK, Idle
  <1>3. NoFalseReplay'
    BY <1>1, <1>2 DEF TokensAreKept, NoFalseReplay
  <1>4. \A g \in Family : ~InCall(g)
    BY <1>1 DEF InCall
  <1>5. InCall(f)'
    BY <1>1, <1>2, OAuthAssumption DEF InCall, FamilyOp
  <1>6. Honoured(disk, f)' \/ f \in doubt
    BY <1>1 DEF TokensAreKept, Honoured
  <1>7. QED
    BY <1>1, <1>3, <1>4, <1>5, <1>6, TokensChange

(* A family nobody has heard of has no answer to keep.                       *)
LEMMA IssueTokensTokens ==
  ASSUME TypeOK, Phases, FamiliesAgree, TokensAreKept, NEW r \in Request, IssueTokens(r)
  PROVE  TokensAreKept'
  <1>0. drawn.families + 1 \in Family
    BY DEF IssueTokens
  <1> PICK f \in Family : f = drawn.families + 1
    BY <1>0
  <1>1. /\ mu = NoRequest /\ mu' = r /\ doubt' = doubt
        /\ disk' = disk /\ standing' = standing
        /\ \A g \in Family : g # f => mem'.families[g] = mem.families[g]
    BY DEF IssueTokens, Call, TypeOK, Content
  <1>2. /\ req'[r].op = "CreateFamily" /\ req'[r].family = f
        /\ \A q \in Request : q # r => req'[q] = req[q]
    BY DEF IssueTokens, Call, TypeOK, Idle
  <1>3. NoFalseReplay'
    BY <1>1, <1>2 DEF TokensAreKept, NoFalseReplay
  <1>4. server = "up"
    BY DEF IssueTokens, Phases
  <1>5. f > drawn.families
    BY DEF TypeOK
  <1>6. standing[f] = None
    BY <1>1, <1>5 DEF FamiliesAgree
  <1>7. Honoured(disk, f)'
    BY <1>1, <1>6, IDs DEF Honoured
  <1>8. InCall(f)'
    BY <1>1, <1>2, OAuthAssumption DEF InCall, FamilyOp
  <1>9. \A g \in Family : ~InCall(g)
    BY <1>1 DEF InCall
  <1>10. QED
    BY <1>1, <1>3, <1>4, <1>7, <1>8, <1>9, TokensChange

LEMMA TokensSavedTokens ==
  ASSUME TypeOK, Phases, FamiliesAgree, TokensAreKept, NEW r \in Request, TokensSaved(r)
  PROVE  TokensAreKept'
  <1>0. req[r].family \in Family /\ req[r].next \in Token
    BY DEF TokensSaved, Saved, Phases, FamilyOp
  <1> PICK f \in Family, t \in Token : f = req[r].family /\ t = req[r].next
    BY <1>0
  <1>1. /\ req[r].pc = "saving" /\ req[r].op \in {"CreateFamily", "Rotate"}
        /\ mem' = mem /\ disk' = mem /\ doubt' = doubt
        /\ standing' = [standing EXCEPT ![f] = t]
        /\ req' = [req EXCEPT ![r] = Idle]
    BY DEF TokensSaved, Saved
  <1>2. server = "up" /\ mu = r
    BY <1>1 DEF Phases, FamilyOp, TypeOK
  <1>3. CallFits(r)
    BY DEF FamiliesAgree
  <1>4. mem.families[f] = [current |-> t, revoked |-> FALSE]
    BY <1>1, <1>3 DEF CallFits
  <1>5. \A g \in Family : ~InCall(g) \/ g = f
    BY <1>2 DEF InCall
  <1>6. standing'[f] = t /\ \A g \in Family : g # f => standing'[g] = standing[g]
    BY <1>1, <1>2 DEF TypeOK
  <1>7. Honoured(disk, f)' /\ Honoured(mem, f)'
    BY <1>1, <1>4, <1>6 DEF Honoured
  <1>8. \A q \in Request : req'[q].op \notin FamilyOp
    <2>1. \A q \in Request : q # r => req[q].op \notin FamilyOp
      BY <1>2, OnlyHolder
    <2>2. QED
      BY <1>1, <2>1 DEF TypeOK, Idle, FamilyOp
  <1>9. NoFalseReplay'
    BY <1>8 DEF NoFalseReplay, FamilyOp
  <1>10. QED
    BY <1>1, <1>2, <1>5, <1>6, <1>7, <1>9, TokensChange

LEMMA RevocationSavedTokens ==
  ASSUME TypeOK, Phases, FamiliesAgree, TokensAreKept, NEW r \in Request, RevocationSaved(r)
  PROVE  TokensAreKept'
  <1>0. req[r].family \in Family
    BY DEF RevocationSaved, Saved, Phases, FamilyOp
  <1> PICK f \in Family : f = req[r].family
    BY <1>0
  <1>1. /\ req[r].pc = "saving" /\ req[r].op \in {"Replay", "RevokeFamily"}
        /\ mem' = mem /\ disk' = mem /\ doubt' = doubt
        /\ standing' = [standing EXCEPT ![f] = Revoked]
        /\ req' = [req EXCEPT ![r] = Idle]
    BY DEF RevocationSaved, Saved
  <1>2. server = "up" /\ mu = r
    BY <1>1 DEF Phases, FamilyOp, TypeOK
  <1>5. \A g \in Family : ~InCall(g) \/ g = f
    BY <1>2 DEF InCall
  <1>6. standing'[f] = Revoked /\ \A g \in Family : g # f => standing'[g] = standing[g]
    BY <1>1, <1>2 DEF TypeOK
  <1>7. Honoured(disk, f)' /\ Honoured(mem, f)'
    BY <1>6, IDs DEF Honoured
  <1>8. \A q \in Request : req'[q].op \notin FamilyOp
    <2>1. \A q \in Request : q # r => req[q].op \notin FamilyOp
      BY <1>2, OnlyHolder
    <2>2. QED
      BY <1>1, <2>1 DEF TypeOK, Idle, FamilyOp
  <1>9. NoFalseReplay'
    BY <1>8 DEF NoFalseReplay, FamilyOp
  <1>10. QED
    BY <1>1, <1>2, <1>5, <1>6, <1>7, <1>9, TokensChange

(* The file has what was answered; an empty one puts every family in doubt.   *)
LEMMA LoadTokens ==
  ASSUME TypeOK, Phases, FamiliesAgree, TokensAreKept, Load
  PROVE  TokensAreKept'
  <1>1. /\ disk' = disk /\ req' = req /\ standing' = standing /\ doubt \subseteq doubt'
    BY DEF Load
  <1>2. NoFalseReplay'
    BY <1>1 DEF TokensAreKept, NoFalseReplay
  <1>3. \A f \in Family \ doubt' : Honoured(disk, f)'
    BY <1>1 DEF TokensAreKept, Honoured
  <1>4. \A f \in Family \ doubt' : server' = "up" => Honoured(mem, f)'
    <2>1. CASE file = "whole"
      BY <2>1, <1>1, <1>3 DEF Load, Honoured
    <2>2. CASE file = "empty"
      <3> SUFFICES ASSUME NEW f \in Family \ doubt' PROVE Honoured(mem, f)'
        OBVIOUS
      <3>1. f \notin 1..drawn.families
        BY <2>2 DEF Load
      <3>2. f > drawn.families
        BY <3>1 DEF Family, TypeOK
      <3>3. standing[f] \notin Token
        BY <3>2, IDs DEF FamiliesAgree
      <3>4. QED
        BY <3>3, <1>1 DEF Honoured
    <2>3. CASE file = "torn"
      BY <2>3 DEF Load
    <2>4. QED
      BY <2>1, <2>2, <2>3 DEF TypeOK
  <1>5. QED
    BY <1>2, <1>3, <1>4 DEF TokensAreKept

LEMMA TokensStep ==
  ASSUME TypeOK, Phases, FamiliesAgree, TokensAreKept, Next
  PROVE  TokensAreKept'
  <1>1. ASSUME NEW r \in Request, NEW c \in Client, RegisterClient(r, c)
        PROVE  TokensAreKept'
    BY <1>1, TokensStay DEF RegisterClient, Call, TypeOK, Content, Idle, InCall
  <1>2. ASSUME NEW r \in Request, NEW c \in Client, Authorize(r, c)
        PROVE  TokensAreKept'
    BY <1>2, TokensStay DEF Authorize, Call, TypeOK, Content, Idle, InCall
  <1>3. ASSUME NEW r \in Request, NEW c \in Client, LegacyRefreshToken(r, c)
        PROVE  TokensAreKept'
    BY <1>3, TokensStay DEF LegacyRefreshToken, storeVars, historyVars, TypeOK, Idle, InCall
  <1>4. ASSUME NEW r \in Request, NEW k \in Code, AuthorizationCodeToken(r, k)
        PROVE  TokensAreKept'
    BY <1>4, TokensStay DEF AuthorizationCodeToken, Call, TypeOK, Content, Idle, InCall
  <1>5. ASSUME NEW r \in Request, NEW f \in Family, RevokeFamily(r, f)
        PROVE  TokensAreKept'
    BY <1>5, RevokeFamilyTokens
  <1>6. ASSUME NEW r \in Request, NEW f \in Family, NEW t \in Token, Rotate(r, f, t)
        PROVE  TokensAreKept'
    BY <1>6, RotateTokens
  <1>7. ASSUME NEW r \in Request, NEW f \in Family, NEW t \in Token, Replay(r, f, t)
        PROVE  TokensAreKept'
    BY <1>7, ReplayTokens
  <1>8. ASSUME NEW r \in Request, ClientSaved(r) \/ AuthCodeSaved(r)
        PROVE  TokensAreKept'
    <2>1. /\ server = "up" /\ mu = r /\ req[r].op \notin FamilyOp
          /\ req' = [req EXCEPT ![r] = Idle]
      BY <1>8 DEF ClientSaved, AuthCodeSaved, Saved, TypeOK, Phases, FamilyOp
    <2>2. \A f \in Family : ~InCall(f)
      BY <2>1 DEF InCall
    <2>3. QED
      BY <1>8, <2>1, <2>2, TokensStay
         DEF ClientSaved, AuthCodeSaved, Saved, historyVars, TypeOK, Idle
  <1>9. ASSUME NEW r \in Request, AuthCodeTaken(r)
        PROVE  TokensAreKept'
    <2>1. /\ server = "up" /\ mu = r /\ req[r].op \notin FamilyOp
          /\ req'[r].op = "TakeAuthCode" /\ \A q \in Request : q # r => req'[q] = req[q]
      BY <1>9 DEF AuthCodeTaken, Saved, TypeOK, RequestRecord, Phases, FamilyOp
    <2>2. \A f \in Family : ~InCall(f)
      BY <2>1 DEF InCall
    <2>3. QED
      BY <1>9, <2>1, <2>2, TokensStay DEF AuthCodeTaken, Saved
  <1>10. ASSUME NEW r \in Request, TokensSaved(r)
         PROVE  TokensAreKept'
    BY <1>10, TokensSavedTokens
  <1>11. ASSUME NEW r \in Request, RevocationSaved(r)
         PROVE  TokensAreKept'
    BY <1>11, RevocationSavedTokens
  <1>12. ASSUME NEW r \in Request, SaveFails(r)
         PROVE  TokensAreKept'
    <2>1. mu = r /\ doubt' = doubt \cup About(r)
      BY <1>12 DEF SaveFails, TypeOK
    <2>2. \A f \in Family \ doubt' : ~InCall(f)
      BY <2>1 DEF InCall, About
    <2>3. QED
      BY <1>12, <2>1, <2>2, TokensStay DEF SaveFails, TypeOK, Idle
  <1>13. ASSUME NEW r \in Request, IssueTokens(r)
         PROVE  TokensAreKept'
    BY <1>13, IssueTokensTokens
  <1>14. ASSUME NEW r \in Request, RefuseTokens(r)
         PROVE  TokensAreKept'
    <2>1. mu # r /\ req' = [req EXCEPT ![r] = Idle]
      BY <1>14 DEF RefuseTokens, TypeOK
    <2>2. \A f \in Family : InCall(f) => InCall(f)'
      BY <1>14, <2>1 DEF RefuseTokens, storeVars, InCall, TypeOK
    <2>3. QED
      BY <1>14, <2>1, <2>2, TokensStay DEF RefuseTokens, storeVars, historyVars, TypeOK, Idle
  <1>15. ASSUME Crash
         PROVE  TokensAreKept'
    <2>1. doubt' = doubt \cup UNION {About(r) : r \in Request}
      BY <1>15 DEF Crash
    <2>2. \A f \in Family \ doubt' : ~InCall(f)
      BY <2>1 DEF InCall, About, TypeOK
    <2>3. QED
      BY <1>15, <2>1, <2>2, TokensStay DEF Crash, Idle
  <1>16. ASSUME Load
         PROVE  TokensAreKept'
    BY <1>16, LoadTokens
  <1>17. ASSUME CodeExpires \/ TokenExpires
         PROVE  TokensAreKept'
    BY <1>17, TokensStay DEF CodeExpires, TokenExpires, storeVars, historyVars, InCall
  <1>18. QED
    BY <1>1, <1>2, <1>3, <1>4, <1>5, <1>6, <1>7, <1>8, <1>9, <1>10, <1>11, <1>12, <1>13,
       <1>14, <1>15, <1>16, <1>17 DEF Next, Answer

(* Registrations.                                                            *)
LEMMA RegistrationsStay ==
  ASSUME RegistrationsAreKept, known' = known, mem'.clients = mem.clients,
         disk'.clients = disk.clients \/ (disk'.clients = mem.clients /\ server = "up"),
         server' = "up" => server = "up",
         \A q \in Request : req'[q].op = "SaveClient" => req'[q] = req[q]
  PROVE  RegistrationsAreKept'
  BY DEF RegistrationsAreKept

LEMMA RegistrationsStep ==
  ASSUME TypeOK, Phases, RegistrationsAreKept, Next
  PROVE  RegistrationsAreKept'
  <1>1. ASSUME NEW r \in Request, NEW c \in Client, RegisterClient(r, c)
        PROVE  RegistrationsAreKept'
    <2>1. /\ mem'.clients = mem.clients \cup {c} /\ disk' = disk /\ known' = known
          /\ req'[r].client = c /\ \A q \in Request : q # r => req'[q] = req[q]
          /\ server' = server
      BY <1>1 DEF RegisterClient, Call, TypeOK, Content, Idle
    <2>2. QED
      BY <2>1 DEF RegistrationsAreKept
  <1>2. ASSUME NEW r \in Request, NEW c \in Client, Authorize(r, c)
        PROVE  RegistrationsAreKept'
    BY <1>2, RegistrationsStay DEF Authorize, Call, TypeOK, Content, Idle
  <1>3. ASSUME NEW r \in Request, NEW c \in Client, LegacyRefreshToken(r, c)
        PROVE  RegistrationsAreKept'
    BY <1>3, RegistrationsStay DEF LegacyRefreshToken, storeVars, historyVars, TypeOK, Idle
  <1>4. ASSUME NEW r \in Request, NEW k \in Code, AuthorizationCodeToken(r, k)
        PROVE  RegistrationsAreKept'
    BY <1>4, RegistrationsStay DEF AuthorizationCodeToken, Call, TypeOK, Content, Idle
  <1>5. ASSUME NEW r \in Request, NEW f \in Family, RevokeFamily(r, f)
        PROVE  RegistrationsAreKept'
    BY <1>5, RegistrationsStay DEF RevokeFamily, Call, TypeOK, Content, Idle
  <1>6. ASSUME NEW r \in Request, NEW f \in Family, NEW t \in Token, Rotate(r, f, t)
        PROVE  RegistrationsAreKept'
    BY <1>6, RegistrationsStay DEF Rotate, Call, TypeOK, Content, Idle
  <1>7. ASSUME NEW r \in Request, NEW f \in Family, NEW t \in Token, Replay(r, f, t)
        PROVE  RegistrationsAreKept'
    BY <1>7, RegistrationsStay DEF Replay, Call, TypeOK, Content, Idle
  <1>8. ASSUME NEW r \in Request, ClientSaved(r)
        PROVE  RegistrationsAreKept'
    <2>1. /\ req[r].op = "SaveClient" /\ known' = known \cup {req[r].client}
          /\ mem' = mem /\ disk' = mem /\ req' = [req EXCEPT ![r] = Idle]
      BY <1>8 DEF ClientSaved, Saved
    <2>2. server = "up" /\ req[r].client \in mem.clients
      BY <1>8, <2>1 DEF RegistrationsAreKept, Phases
    <2>3. \A q \in Request : req'[q].op = "SaveClient" => req'[q] = req[q]
      BY <2>1 DEF TypeOK, Idle
    <2>4. QED
      BY <2>1, <2>2, <2>3 DEF RegistrationsAreKept
  <1>9. ASSUME NEW r \in Request,
               AuthCodeSaved(r) \/ AuthCodeTaken(r) \/ TokensSaved(r) \/ RevocationSaved(r)
        PROVE  RegistrationsAreKept'
    <2>1. /\ req[r].op # "SaveClient" /\ req[r].pc = "saving" /\ known' = known
          /\ mem' = mem /\ disk' = mem /\ server' = server
          /\ req' = [req EXCEPT ![r] = Idle] \/ req' = [req EXCEPT ![r].pc = "issuing"]
      BY <1>9 DEF AuthCodeSaved, AuthCodeTaken, TokensSaved, RevocationSaved, Saved,
                  historyVars, TypeOK
    <2>2. server = "up"
      BY <2>1 DEF Phases
    <2>3. \A q \in Request : req'[q].op = "SaveClient" => req'[q] = req[q]
      BY <2>1 DEF TypeOK, RequestRecord, Idle
    <2>4. QED
      BY <2>1, <2>2, <2>3, RegistrationsStay
  <1>10. ASSUME NEW r \in Request, SaveFails(r) \/ RefuseTokens(r)
         PROVE  RegistrationsAreKept'
    BY <1>10, RegistrationsStay DEF SaveFails, RefuseTokens, storeVars, historyVars, TypeOK, Idle
  <1>11. ASSUME NEW r \in Request, IssueTokens(r)
         PROVE  RegistrationsAreKept'
    BY <1>11, RegistrationsStay DEF IssueTokens, Call, TypeOK, Content, Idle
  <1>12. ASSUME Crash
         PROVE  RegistrationsAreKept'
    BY <1>12, RegistrationsStay DEF Crash, Idle
  <1>13. ASSUME Load
         PROVE  RegistrationsAreKept'
    <2>1. \A q \in Request : req'[q].op # "SaveClient"
      BY <1>13 DEF Load, Phases, TypeOK
    <2>2. known' \subseteq disk'.clients
      BY <1>13 DEF Load, RegistrationsAreKept
    <2>3. server' = "up" => known' \subseteq mem'.clients
      BY <1>13, <2>2 DEF Load, TypeOK
    <2>4. QED
      BY <2>1, <2>2, <2>3 DEF RegistrationsAreKept
  <1>14. ASSUME CodeExpires \/ TokenExpires
         PROVE  RegistrationsAreKept'
    BY <1>14, RegistrationsStay DEF CodeExpires, TokenExpires, storeVars, historyVars
  <1>15. QED
    BY <1>1, <1>2, <1>3, <1>4, <1>5, <1>6, <1>7, <1>8, <1>9, <1>10, <1>11, <1>12, <1>13,
       <1>14 DEF Next, Answer

(***************************************************************************)
(* The theorems.                                                           *)
(***************************************************************************)

LEMMA Stuttering == IndInv /\ UNCHANGED vars => IndInv'
  <1> SUFFICES ASSUME IndInv, UNCHANGED vars PROVE IndInv'
    OBVIOUS
  <1> USE DEF vars
  <1>1. TypeOK'
    BY DEF IndInv, TypeOK
  <1>2. Phases' /\ CodesAgree'
    BY DEF IndInv, Phases, CodesAgree, CodesFit
  <1>3. FamiliesAgree'
    BY DEF IndInv, FamiliesAgree, FamilyFits, CallFits
  <1>4. TokensAreKept'
    BY DEF IndInv, TokensAreKept, Honoured, InCall, NoFalseReplay
  <1>5. RegistrationsAreKept'
    BY DEF IndInv, RegistrationsAreKept
  <1>6. QED
    BY <1>1, <1>2, <1>3, <1>4, <1>5 DEF IndInv

\* The inductive invariant: memory, the file, the requests in progress and what
\* was answered agree, for any number of requests, clients, faults and crashes.
THEOREM Invariance == Spec => []IndInv
  <1>1. IndInv /\ Next => IndInv'
    BY TypeStep, CodesStep, FamiliesStep, TokensStep, RegistrationsStep DEF IndInv
  <1>2. IndInv /\ [Next]_vars => IndInv'
    BY <1>1, Stuttering
  <1>3. QED
    BY InitInv, <1>2, PTL DEF Spec

\* An authorization code is handed out at most once (TakeAuthCode), whatever write
\* fails and wherever a crash falls.
THEOREM CodesAreUsedOnce == Spec => []CodeUsedOnce
  <1>1. IndInv => CodeUsedOnce
    BY DEF IndInv, CodesAgree, CodeUsedOnce
  <1>2. QED
    BY Invariance, <1>1, PTL

\* Refresh tokens and registrations that were answered survive crashes and the
\* failed writes of other requests (persist, NewDiskStore).
THEOREM Survival == Spec => []AnswersSurvive
  <1>1. IndInv => StandingIsHonoured
    BY DEF IndInv, TokensAreKept, Honoured, StandingIsHonoured
  <1>2. IndInv => ClientsAreKept
    BY DEF IndInv, RegistrationsAreKept, ClientsAreKept
  <1>3. QED
    BY Invariance, <1>1, <1>2, PTL DEF AnswersSurvive

\* A user agent that presents the token of the last answer is not accused of a
\* replay, unless a call on its family failed (Rotate).
THEOREM Accusation == Spec => []NoFalseReplay
  <1>1. IndInv => NoFalseReplay
    BY DEF IndInv, TokensAreKept
  <1>2. QED
    BY Invariance, <1>1, PTL

(***************************************************************************)
(* The refinement.                                                         *)
(***************************************************************************)

LEMMA InitMaps == Init => States!Init
  BY DEF Init, States!Init, States!None, None

\* Only the answers to CreateFamily and Rotate put a token in force.
LEMMA TokensSavedMaps ==
  ASSUME TypeOK, Phases, FamiliesAgree, NEW r \in Request, TokensSaved(r)
  PROVE  States!Next
  <1>1. req[r].family \in Family /\ req[r].next \in Token
    BY DEF TokensSaved, Saved, Phases, FamilyOp
  <1> PICK f \in Family, t \in Token : f = req[r].family /\ t = req[r].next
    BY <1>1
  <1>2. CallFits(r)
    BY DEF FamiliesAgree
  <1>3. standing' = [standing EXCEPT ![f] = t] /\ doubt' = doubt
    BY DEF TokensSaved
  <1>4. CASE req[r].op = "CreateFamily"
    <2>1. States!CreateFamily(f, t)
      BY <1>2, <1>3, <1>4 DEF CallFits, States!CreateFamily, States!None, None
    <2>2. QED
      BY <2>1 DEF States!Next
  <1>5. CASE req[r].op = "Rotate"
    <2>1. standing[f] \in Token /\ standing[f] < t
      BY <1>2, <1>5 DEF CallFits, Phases
    <2>2. States!Rotate(f, t)
      BY <1>3, <2>1 DEF States!Rotate
    <2>3. QED
      BY <2>2 DEF States!Next
  <1>6. QED
    BY <1>4, <1>5 DEF TokensSaved, Saved

LEMMA RevocationSavedMaps ==
  ASSUME TypeOK, Phases, FamiliesAgree, NEW r \in Request, RevocationSaved(r)
  PROVE  States!Next
  <1>1. req[r].family \in Family /\ req[r].op \in FamilyOp
    BY DEF RevocationSaved, Saved, Phases, FamilyOp
  <1> PICK f \in Family : f = req[r].family
    BY <1>1
  <1>2. CallFits(r)
    BY DEF FamiliesAgree
  <1>3. standing[f] # Revoked
    BY <1>1, <1>2 DEF CallFits
  <1>4. standing[f] \in Token \cup {None}
    BY <1>3 DEF TypeOK
  <1>5. States!RevokeFamily(f)
    BY <1>4 DEF RevocationSaved, States!RevokeFamily, States!None, States!Revoked, None, Revoked
  <1>6. QED
    BY <1>5 DEF States!Next

(* Every other step leaves the answers alone and may put families in doubt.   *)
LEMMA OtherStepsMap ==
  ASSUME standing' = standing, doubt' \subseteq Family, doubt \subseteq doubt'
  PROVE  States!Next
  <1>1. doubt' = doubt \cup doubt'
    OBVIOUS
  <1>2. States!Fail(doubt')
    BY <1>1, Zenon DEF States!Fail
  <1>3. QED
    BY <1>2 DEF States!Next

LEMMA NextMaps == IndInv /\ IndInv' /\ [Next]_vars => [States!Next]_States!vars
  <1> SUFFICES ASSUME IndInv, IndInv', [Next]_vars PROVE [States!Next]_States!vars
    OBVIOUS
  <1> USE DEF IndInv
  <1>1. CASE \E r \in Request : TokensSaved(r)
    BY <1>1, TokensSavedMaps
  <1>2. CASE \E r \in Request : RevocationSaved(r)
    BY <1>2, RevocationSavedMaps
  <1>3. CASE standing' = standing /\ doubt \subseteq doubt'
    BY <1>3, OtherStepsMap DEF TypeOK
  <1>4. ASSUME NEW r \in Request, NEW c \in Client,
               RegisterClient(r, c) \/ Authorize(r, c) \/ LegacyRefreshToken(r, c)
        PROVE  standing' = standing /\ doubt \subseteq doubt'
    BY <1>4 DEF RegisterClient, Authorize, LegacyRefreshToken, Call, historyVars
  <1>5. ASSUME NEW r \in Request, \/ \E k \in Code : AuthorizationCodeToken(r, k)
                                 \/ \E f \in Family : RevokeFamily(r, f)
        PROVE  standing' = standing /\ doubt \subseteq doubt'
    BY <1>5 DEF AuthorizationCodeToken, RevokeFamily, Call
  <1>6. ASSUME NEW r \in Request, NEW f \in Family, NEW t \in Token,
               Rotate(r, f, t) \/ Replay(r, f, t)
        PROVE  standing' = standing /\ doubt \subseteq doubt'
    BY <1>6 DEF Rotate, Replay, Call
  <1>7. ASSUME NEW r \in Request, \/ ClientSaved(r) \/ AuthCodeSaved(r) \/ AuthCodeTaken(r)
                                 \/ SaveFails(r) \/ IssueTokens(r) \/ RefuseTokens(r)
        PROVE  standing' = standing /\ doubt \subseteq doubt'
    BY <1>7 DEF ClientSaved, AuthCodeSaved, AuthCodeTaken, SaveFails, IssueTokens,
                RefuseTokens, Call, historyVars
  <1>8. ASSUME Crash \/ Load \/ CodeExpires \/ TokenExpires
        PROVE  standing' = standing /\ doubt \subseteq doubt'
    BY <1>8 DEF Crash, Load, CodeExpires, TokenExpires, historyVars
  <1>9. CASE UNCHANGED vars
    BY <1>9 DEF vars, States!vars
  <1>10. QED
    BY <1>1, <1>2, <1>3, <1>4, <1>5, <1>6, <1>7, <1>8, <1>9 DEF Next, Answer

\* The store implements the interface it is written to (RefreshTokenStateStore):
\* every step is an answer, a call that fails, or nothing a caller can see.
THEOREM Refinement == Spec => ImplementsStates
  <1>1. IndInv /\ IndInv' /\ [Next]_vars => [States!Next]_States!vars
    BY NextMaps
  <1>2. QED
    BY Invariance, InitMaps, <1>1, PTL DEF Spec, ImplementsStates, States!Spec
=============================================================================
