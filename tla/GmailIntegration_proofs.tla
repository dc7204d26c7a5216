----------------------- MODULE GmailIntegration_proofs -----------------------
(***************************************************************************)
(* The safety of GmailIntegration for any syncs, connections and bounds.   *)
(***************************************************************************)
EXTENDS GmailIntegration, TLAPS

LEMMA IdleTypes == NoSync \in SyncRecord /\ NoConnect \in ConnectRecord
BY BoundAssumption DEF NoSync, NoConnect, SyncRecord, ConnectRecord

LEMMA TypeInit == Init => TypeOK
<1> SUFFICES ASSUME Init PROVE TypeOK
  OBVIOUS
<1>1. sync \in [Sync -> SyncRecord] /\ connect \in [Connect -> ConnectRecord]
  BY IdleTypes DEF Init
<1>2. event \in [Token -> {"none", "created", "delivered"}]
  BY DEF Init
<1>3. /\ token \in 0..MaxToken /\ handedOut \in 0..MaxToken
      /\ crashes \in 0..MaxCrash
  BY BoundAssumption DEF Init
<1> QED
  BY <1>1, <1>2, <1>3 DEF Init, TypeOK

(* There is a token wherever one is used; the type alone would allow none. *)
TokensExist ==
  /\ status # "none" => token \in Token
  /\ \A s \in Sync :
       sync[s].pc # "idle" => sync[s].token \in Token /\ token \in Token
  /\ \A c \in Connect :
       connect[c].pc = "exchanged" => connect[c].token \in Token

(* A step of a sync keeps the type of the syncs. *)
LEMMA SyncToType ==
  ASSUME NEW s \in Sync, sync \in [Sync -> SyncRecord],
         NEW pc \in {"idle", "loaded", "refused", "saved", "created", "sent",
                     "reading"},
         SyncTo(s, pc)
  PROVE  /\ sync' \in [Sync -> SyncRecord]
         /\ UNCHANGED <<handedOut, revoked, connect, unsaid, crashes>>
<1>1. [sync[s] EXCEPT !.pc = pc] \in SyncRecord
  BY DEF SyncRecord
<1> QED
  BY <1>1, IdleTypes DEF SyncTo

LEMMA TypeNext == TypeOK /\ TokensExist /\ [Next]_vars => TypeOK'
<1> SUFFICES ASSUME TypeOK, TokensExist, [Next]_vars PROVE TypeOK'
  OBVIOUS
<1> USE DEF TypeOK
<1>1. ASSUME NEW c \in Connect, NEW pc \in {"idle", "issued", "found", "taken"},
             ConnectTo(c, pc)
      PROVE TypeOK'
  <2>1. [connect[c] EXCEPT !.pc = pc] \in ConnectRecord
    BY DEF ConnectRecord
  <2> QED
    BY <1>1, <2>1 DEF ConnectTo
<1>2. ASSUME NEW c \in Connect, Exchange(c) PROVE TypeOK'
  <2>1. [pc |-> "exchanged", token |-> handedOut + 1] \in ConnectRecord
    BY <1>2, BoundAssumption DEF Exchange, ConnectRecord
  <2>2. handedOut + 1 \in 0..MaxToken /\ revoked \subseteq 1..(handedOut + 1)
    BY <1>2, BoundAssumption DEF Exchange
  <2> QED
    BY <1>2, <2>1, <2>2 DEF Exchange
<1>3. ASSUME NEW c \in Connect, StoreConnection(c) PROVE TypeOK'
  <2>1. connect[c].token \in 0..MaxToken
    BY DEF ConnectRecord
  <2> QED
    BY <1>3, <2>1, IdleTypes DEF StoreConnection
<1>4. ASSUME NEW c \in Connect, StopConnecting(c) PROVE TypeOK'
  <2>1. [connect[c] EXCEPT !.pc = "issued"] \in ConnectRecord
    BY DEF ConnectRecord
  <2> QED
    BY <1>4, <2>1, IdleTypes DEF StopConnecting, Connection
<1>5. ASSUME NEW g \in Token, Revoke(g) PROVE TypeOK'
  BY <1>5 DEF Revoke
<1>6. ASSUME NEW s \in Sync, Load(s) PROVE TypeOK'
  <2>1. [pc |-> "loaded", token |-> token] \in SyncRecord
    BY DEF SyncRecord
  <2> QED
    BY <1>6, <2>1 DEF Load, Connection
<1>7. ASSUME NEW s \in Sync, SyncStep(s) PROVE TypeOK'
  <2>1. CASE Refresh(s)
    BY <2>1, SyncToType DEF Refresh, Connection
  <2>2. CASE SaveNeedsReauth(s)
    BY <2>2, SyncToType DEF SaveNeedsReauth
  <2>3. CASE CreateEvent(s)
    BY <2>3, SyncToType DEF CreateEvent, Connection
  <2>4. CASE SendMail(s)
    BY <2>4, SyncToType DEF SendMail, Connection
  <2>5. CASE MarkDelivered(s)
    BY <2>5, SyncToType DEF MarkDelivered, Connection
  <2>6. CASE MarkSyncSuccess(s)
    BY <2>6, SyncToType DEF MarkSyncSuccess
  <2> QED
    BY <1>7, <2>1, <2>2, <2>3, <2>4, <2>5, <2>6 DEF SyncStep
<1>8. ASSUME NEW s \in Sync, Stop(s) PROVE TypeOK'
  <2>1. sync[s].token \in Token
    BY <1>8 DEF Stop, TokensExist
  <2>2. crashes + 1 \in 0..MaxCrash
    BY <1>8, BoundAssumption DEF Stop
  <2> QED
    BY <1>8, <2>1, <2>2, IdleTypes DEF Stop, Connection
<1>9. CASE UNCHANGED vars
  BY <1>9 DEF vars
<1> QED
  BY <1>1, <1>2, <1>3, <1>4, <1>5, <1>6, <1>7, <1>8, <1>9
     DEF Next, CreateConnectUrl, ExpireState, FindState, DeleteState

LEMMA TokensInit == Init => TokensExist
BY DEF Init, TokensExist, NoSync, NoConnect

LEMMA TokensNext == TypeOK /\ TokensExist /\ [Next]_vars => TokensExist'
<1> SUFFICES ASSUME TypeOK, TokensExist, [Next]_vars PROVE TokensExist'
  OBVIOUS
<1> USE DEF TypeOK, TokensExist, Token
<1>1. ASSUME NEW c \in Connect, NEW pc \in {"idle", "issued", "found", "taken"},
             ConnectTo(c, pc)
      PROVE TokensExist'
  BY <1>1 DEF ConnectTo, ConnectRecord
<1>2. ASSUME NEW c \in Connect, Exchange(c) PROVE TokensExist'
  <2>1. handedOut + 1 \in 1..MaxToken
    BY <1>2, BoundAssumption DEF Exchange
  <2> QED
    BY <1>2, <2>1 DEF Exchange, ConnectRecord
<1>3. ASSUME NEW c \in Connect, StoreConnection(c) \/ StopConnecting(c)
      PROVE TokensExist'
  <2>1. CASE StoreConnection(c)
    BY <2>1 DEF StoreConnection, NoConnect
  <2>2. CASE StopConnecting(c)
    <3>1. /\ connect'[c].token = 0 \/ connect'[c].token = connect[c].token
          /\ connect'[c].pc # "exchanged"
          /\ \A d \in Connect \ {c} : connect'[d] = connect[d]
      BY <2>2 DEF StopConnecting, NoConnect, ConnectRecord
    <3> QED
      BY <2>2, <3>1 DEF StopConnecting, Connection
  <2> QED
    BY <1>3, <2>1, <2>2
<1>4. ASSUME NEW g \in Token, Revoke(g) PROVE TokensExist'
  BY <1>4 DEF Revoke
<1>5. ASSUME NEW s \in Sync, Load(s) PROVE TokensExist'
  BY <1>5 DEF Load, Usable, Connection
<1>6. ASSUME NEW s \in Sync,
             NEW pc \in {"idle", "refused", "saved", "created", "sent", "reading"},
             sync[s].pc # "idle", SyncTo(s, pc), UNCHANGED token
      PROVE TokensExist'
  BY <1>6 DEF SyncTo, NoSync
<1>7. ASSUME NEW s \in Sync, SyncStep(s) PROVE TokensExist'
  BY <1>6, <1>7 DEF SyncStep, Refresh, SaveNeedsReauth, CreateEvent, SendMail,
                    MarkDelivered, MarkSyncSuccess, Connection
<1>8. ASSUME NEW s \in Sync, Stop(s) PROVE TokensExist'
  BY <1>8 DEF Stop, NoSync, Connection
<1>9. CASE UNCHANGED vars
  BY <1>9 DEF vars
<1> QED
  BY <1>1, <1>2, <1>3, <1>4, <1>5, <1>7, <1>8, <1>9
     DEF Next, CreateConnectUrl, ExpireState, FindState, DeleteState

(* Every variable of the Gmail integration keeps its type. *)
THEOREM TypeCorrect == Spec => []TypeOK
<1>1. Spec => [](TypeOK /\ TokensExist)
  BY TypeInit, TypeNext, TokensInit, TokensNext, PTL DEF Spec
<1> QED
  BY <1>1, PTL

-------------------------------------------------------------------------------
(* A sync believes a refusal only of a token that is revoked, and no token *)
(* is ever accepted again.                                                 *)
RefusalInv ==
  /\ \A s \in Sync : sync[s].pc = "refused" => sync[s].token \in revoked
  /\ NeedsReauthIsEarned

LEMMA RefusalInit == Init => RefusalInv
BY DEF Init, RefusalInv, NeedsReauthIsEarned, NoSync

LEMMA RefusalNext == TypeOK /\ RefusalInv /\ [Next]_vars => RefusalInv'
<1> SUFFICES ASSUME TypeOK, RefusalInv, [Next]_vars PROVE RefusalInv'
  OBVIOUS
<1> USE DEF TypeOK, SyncRecord, RefusalInv, NeedsReauthIsEarned
<1>1. ASSUME NEW c \in Connect,
             \/ CreateConnectUrl(c) \/ ExpireState(c) \/ FindState(c) \/ DeleteState(c)
             \/ Exchange(c) \/ StoreConnection(c) \/ StopConnecting(c)
      PROVE RefusalInv'
  BY <1>1 DEF CreateConnectUrl, ExpireState, FindState, DeleteState, ConnectTo, Exchange,
              StoreConnection, StopConnecting, Connection
<1>2. ASSUME NEW g \in Token, Revoke(g) PROVE RefusalInv'
  BY <1>2 DEF Revoke
<1>3. ASSUME NEW s \in Sync, Load(s) PROVE RefusalInv'
  BY <1>3 DEF Load, Connection
<1>4. ASSUME NEW s \in Sync, Refresh(s) PROVE RefusalInv'
  BY <1>4 DEF Refresh, Refused, SyncTo, Connection
<1>5. ASSUME NEW s \in Sync, SaveNeedsReauth(s) PROVE RefusalInv'
  BY <1>5 DEF SaveNeedsReauth, SyncTo
<1>6. ASSUME NEW s \in Sync,
             CreateEvent(s) \/ SendMail(s) \/ MarkDelivered(s) \/ Stop(s)
      PROVE RefusalInv'
  BY <1>6 DEF CreateEvent, SendMail, MarkDelivered, Stop, SyncTo, NoSync,
              Connection
<1>7. ASSUME NEW s \in Sync, MarkSyncSuccess(s) PROVE RefusalInv'
  BY <1>7 DEF MarkSyncSuccess, SyncTo, NoSync
<1>8. CASE UNCHANGED vars
  BY <1>8 DEF vars
<1> QED
  BY <1>1, <1>2, <1>3, <1>4, <1>5, <1>6, <1>7, <1>8 DEF Next, SyncStep

(* A connection requires authentication only because Google refused its    *)
(* token, or an older one too late.                                        *)
THEOREM ReauthEarned == Spec => []NeedsReauthIsEarned
<1>1. Spec => []RefusalInv
  BY TypeCorrect, RefusalInit, RefusalNext, PTL DEF Spec
<1> QED
  BY <1>1, PTL DEF RefusalInv

==============================================================================
