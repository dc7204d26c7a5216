-------------------------- MODULE GmailIntegration --------------------------
(***************************************************************************)
(* The Gmail connection of one tenant (TenantGmailIntegrationService).  An *)
(* administrator connects a mailbox with OAuth; every sync of an ingestion *)
(* run loads the connection, asks Google for an access token, reads the    *)
(* mailbox and reports success, or marks the connection as requiring       *)
(* authentication and notifies its user.  Syncs of the worker and of API   *)
(* jobs overlap with each other, with connecting and with the user         *)
(* revoking the grant at Google.                                           *)
(***************************************************************************)
EXTENDS Naturals

CONSTANTS
  Sync,      \* slots of syncs, each serving one after another
  Worker,    \* the syncs of the scheduled worker among them
  Connect,   \* slots of OAuth connections
  MaxToken,  \* bound: refresh tokens Google hands out
  MaxCrash   \* bound: commands that fail or are never reached

ASSUME WorkerAssumption == Worker \subseteq Sync
ASSUME BoundAssumption == MaxToken \in Nat /\ MaxCrash \in Nat

VARIABLES
  token,     \* the refresh token in the integration, 0 without a document
  status,    \* and its status
  handedOut, \* how many tokens Google has handed out, numbered from 1
  revoked,   \* the tokens Google no longer accepts
  sync, connect,
  event,     \* of each token the notifications created for it: none, one
             \* that is not delivered, one that is
  overtaken, \* history: an older token was refused and the status says so
  unsaid,    \* history: tokens whose refusal was saved by a sync that then
             \* stopped before it created the notification
  crashes    \* for the bound

vars == <<token, status, handedOut, revoked, sync, connect, event, overtaken,
          unsaid, crashes>>

Token == 1..MaxToken

SyncRecord    == [pc : {"idle", "loaded", "refused", "saved", "created", "sent",
                        "reading"},
                  token : 0..MaxToken]
ConnectRecord == [pc : {"idle", "issued", "found", "taken", "exchanged"},
                  token : 0..MaxToken]

TypeOK ==
  /\ token \in 0..MaxToken
  /\ status \in {"none", "connected", "requires_reauth"}
  /\ handedOut \in 0..MaxToken
  /\ revoked \subseteq 1..handedOut
  /\ sync \in [Sync -> SyncRecord]
  /\ connect \in [Connect -> ConnectRecord]
  /\ event \in [Token -> {"none", "created", "delivered"}]
  /\ overtaken \in BOOLEAN
  /\ unsaid \subseteq Token
  /\ crashes \in 0..MaxCrash

NoSync    == [pc |-> "idle", token |-> 0]
NoConnect == [pc |-> "idle", token |-> 0]

Init ==
  /\ token = 0
  /\ status = "none"
  /\ handedOut = 0
  /\ revoked = {}
  /\ sync = [s \in Sync |-> NoSync]
  /\ connect = [c \in Connect |-> NoConnect]
  /\ event = [g \in Token |-> "none"]
  /\ overtaken = FALSE
  /\ unsaid = {}
  /\ crashes = 0

-------------------------------------------------------------------------------
(* Connecting                                                                *)

ConnectTo(c, pc) ==
  /\ connect' = [connect EXCEPT ![c].pc = pc]
  /\ UNCHANGED <<token, status, handedOut, revoked, sync, event, overtaken,
                 unsaid, crashes>>

(* The OAuth state is stored and the browser sent to Google. *)
CreateConnectUrl(c) == connect[c].pc = "idle" /\ ConnectTo(c, "issued")

(* The state expires, by its date or the TTL index. *)
ExpireState(c) == connect[c].pc = "issued" /\ ConnectTo(c, "idle")

(* The callback finds the state, then deletes it.  A second callback that  *)
(* found it in between goes on too, as a connection of another slot would. *)
FindState(c) == connect[c].pc = "issued" /\ ConnectTo(c, "found")

DeleteState(c) == connect[c].pc = "found" /\ ConnectTo(c, "taken")

(* Google exchanges the code for a refresh token. *)
Exchange(c) ==
  /\ connect[c].pc = "taken"
  /\ handedOut < MaxToken
  /\ handedOut' = handedOut + 1
  /\ connect' = [connect EXCEPT ![c] = [pc |-> "exchanged", token |-> handedOut + 1]]
  /\ UNCHANGED <<token, status, revoked, sync, event, overtaken, unsaid, crashes>>

StoreWithoutStatus(c) ==   \* mutant of StoreConnection: the schema's default
  /\ connect[c].pc = "exchanged"
  /\ token' = connect[c].token
  /\ status' = IF status = "none" THEN "error" ELSE status
  /\ overtaken' = FALSE
  /\ connect' = [connect EXCEPT ![c] = NoConnect]
  /\ UNCHANGED <<handedOut, revoked, sync, event, unsaid, crashes>>

(* One upsert.  Its undefined fields are dropped by mongoose: the last     *)
(* error and the time of the notification stay.                            *)
StoreConnection(c) ==
  /\ connect[c].pc = "exchanged"
  /\ token' = connect[c].token
  /\ status' = "connected"
  /\ overtaken' = FALSE
  /\ connect' = [connect EXCEPT ![c] = NoConnect]
  /\ UNCHANGED <<handedOut, revoked, sync, event, unsaid, crashes>>

(* The user withdraws the grant at Google, or the token expires there. *)
Revoke(g) ==
  /\ g \in 1..handedOut \ revoked
  /\ revoked' = revoked \cup {g}
  /\ UNCHANGED <<token, status, handedOut, sync, connect, event, overtaken,
                 unsaid, crashes>>

-------------------------------------------------------------------------------
(* A sync                                                                    *)

SyncTo(s, pc) ==
  /\ sync' = [sync EXCEPT ![s] = IF pc = "idle" THEN NoSync ELSE [@ EXCEPT !.pc = pc]]
  /\ UNCHANGED <<handedOut, revoked, connect, unsaid, crashes>>

Connection == <<token, status, overtaken>>

UsableOnce == status = "connected" /\ event[token] = "none"   \* mutant of Usable

Usable == status = "connected"

(* Without a document or a valid authentication there is nothing to sync. *)
Load(s) ==
  /\ sync[s].pc = "idle"
  /\ Usable
  /\ sync' = [sync EXCEPT ![s] = [pc |-> "loaded", token |-> token]]
  /\ UNCHANGED <<Connection, handedOut, revoked, connect, event, unsaid, crashes>>

RefusedByAnyError(g) == TRUE   \* mutant of Refused

(* Google answers invalid_grant; any other error ends the sync as Stop. *)
Refused(g) == g \in revoked

Refresh(s) ==
  /\ sync[s].pc = "loaded"
  /\ \/ Refused(sync[s].token) /\ SyncTo(s, "refused")
     \/ sync[s].token \notin revoked /\ SyncTo(s, "reading")
  /\ UNCHANGED <<Connection, event>>

SaveNotifyOnce(s) ==   \* mutant of SaveNeedsReauth: one notification for ever
  /\ sync[s].pc = "refused"
  /\ status' = "requires_reauth"
  /\ overtaken' = (sync[s].token # token)
  /\ SyncTo(s, IF \E g \in Token : event[g] # "none" THEN "idle" ELSE "saved")
  /\ UNCHANGED <<token, event>>

(* transitionToNeedsReauth saves the status by _id, whatever token is      *)
(* there now.                                                              *)
SaveNeedsReauth(s) ==
  /\ sync[s].pc = "refused"
  /\ status' = "requires_reauth"
  /\ overtaken' = (sync[s].token # token)
  /\ SyncTo(s, "saved")
  /\ UNCHANGED <<token, event>>

(* A second notification for a token replaces the first here. *)
CreateEvent(s) ==
  /\ sync[s].pc = "saved"
  /\ event' = [event EXCEPT ![sync[s].token] = "created"]
  /\ SyncTo(s, "created")
  /\ UNCHANGED Connection

(* Mail is not configured, is refused by the server, or goes out. *)
SendMail(s) ==
  /\ sync[s].pc = "created"
  /\ SyncTo(s, "idle") \/ SyncTo(s, "sent")
  /\ UNCHANGED <<Connection, event>>

MarkDelivered(s) ==
  /\ sync[s].pc = "sent"
  /\ event' = [event EXCEPT ![sync[s].token] = "delivered"]
  /\ SyncTo(s, "idle")
  /\ UNCHANGED Connection

(* The mailbox was read: markSyncSuccess does not look at the status or    *)
(* the token that are there now.                                           *)
MarkSyncSuccess(s) ==
  /\ sync[s].pc = "reading"
  /\ status' = "connected"
  /\ overtaken' = FALSE
  /\ SyncTo(s, "idle")
  /\ UNCHANGED <<token, event>>

(* The network, IMAP or the database fails, or the process stops. *)
Stop(s) ==
  /\ sync[s].pc # "idle"
  /\ crashes < MaxCrash
  /\ crashes' = crashes + 1
  /\ unsaid' = IF sync[s].pc = "saved" THEN unsaid \cup {sync[s].token} ELSE unsaid
  /\ sync' = [sync EXCEPT ![s] = NoSync]
  /\ UNCHANGED <<Connection, handedOut, revoked, connect, event>>

(* A state that was not deleted yet serves another callback. *)
StopConnecting(c) ==
  /\ connect[c].pc \in {"found", "taken", "exchanged"}
  /\ connect' = [connect EXCEPT ![c] =
       IF @.pc = "found" THEN [@ EXCEPT !.pc = "issued"] ELSE NoConnect]
  /\ UNCHANGED <<Connection, handedOut, revoked, sync, event, unsaid, crashes>>

-------------------------------------------------------------------------------
SyncStep(s) ==
  \/ Refresh(s) \/ SaveNeedsReauth(s) \/ CreateEvent(s) \/ SendMail(s)
  \/ MarkDelivered(s) \/ MarkSyncSuccess(s)

Next ==
  \/ \E c \in Connect :
       \/ CreateConnectUrl(c) \/ ExpireState(c) \/ FindState(c) \/ DeleteState(c)
       \/ Exchange(c) \/ StoreConnection(c) \/ StopConnecting(c)
  \/ \E g \in Token : Revoke(g)
  \/ \E s \in Sync : Load(s) \/ SyncStep(s) \/ Stop(s)

(* A sync that does not fail goes on, and the scheduled worker syncs again *)
(* and again; nothing is assumed about connecting.                         *)
Spec ==
  /\ Init /\ [][Next]_vars
  /\ \A s \in Sync : WF_vars(SyncStep(s))
  /\ \A s \in Worker : WF_vars(Load(s))

-------------------------------------------------------------------------------
(***************************************************************************)
(* Users are asked to authenticate again only for a token Google refused:  *)
(* the current one, unless a sync that started with an older token saved   *)
(* its refusal after the mailbox had been connected again.                 *)
(***************************************************************************)
NeedsReauthIsEarned ==
  status = "requires_reauth" /\ ~overtaken => token \in revoked

(***************************************************************************)
(* A connection whose token is revoked does not look connected for good:   *)
(* a sync that had its access token before may report success after        *)
(* another saw the refusal, and the next one finds out again.              *)
(***************************************************************************)
RevocationIsNoticed == <>[](token \in revoked => status = "requires_reauth")

(***************************************************************************)
(* A refusal of the current token is announced.  The exceptions: a sync    *)
(* stopped between saving the status and creating the notification, and no *)
(* later sync looks at the connection; or an older token was refused late  *)
(* and announced instead.                                                  *)
(***************************************************************************)
RefusalIsAnnounced ==
  \A g \in Token :
    token = g /\ g \in revoked
      ~> event[g] # "none" \/ g \in unsaid \/ token # g \/ overtaken

==============================================================================
