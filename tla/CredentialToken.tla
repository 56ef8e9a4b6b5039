---------------------------- MODULE CredentialToken ----------------------------
(***************************************************************************)
(* The iSolarCloud token of ONE company's credential.  The provider        *)
(* invalidates a refresh token the moment it is used; the service keeps    *)
(* the pair inside the credential's Extra blob, which the refresh and an   *)
(* operator's Update both read, merge and write under one lease.           *)
(* Access and refresh tokens are numbered in the order of their issue.     *)
(***************************************************************************)
EXTENDS Integers

CONSTANTS
  Callers,       \* jobs that need an access token, and operators
  NoCaller,      \* nobody holds the token lease
  MaxToken,      \* bound of the tokens issued
  MaxEdit,       \* bound of the operator's edits
  TokenFaults    \* which faults occur: "refused", "lost", "crash"

ASSUME TokenAssumption == NoCaller \notin Callers /\ MaxToken \in Nat /\ MaxEdit \in Nat

VARIABLES
  provider,   \* the pair the provider honours
  extra,      \* the credential's Extra blob: the pair and the operator's keys
  fresh,      \* token_expires_at is further away than isolarRefreshWindow
  tokenLease, \* who holds isolarTokenLockKey
  caller,     \* the calls, with their locals
  (* history variables, read by no action's guard *)
  expired,    \* the newest access token known to be expiring
  edits,      \* the operator's last saved edit
  stranded,   \* an issued pair was lost before it was stored
  refused     \* a refresh was sent a refresh token already used

tokenVars == <<provider, extra, fresh, tokenLease, caller, expired, edits, stranded, refused>>

Holding == {"recheck", "refresh", "merge", "write", "stamp", "edit", "save"}
NoCall == [pc |-> "idle", blob |-> [access |-> 0, refresh |-> 0, edit |-> 0],
           issued |-> [access |-> 0, refresh |-> 0], got |-> 0, since |-> 0]

TokenInit ==
  /\ provider = [access |-> 1, refresh |-> 1]
  /\ extra = [access |-> 1, refresh |-> 1, edit |-> 0]
  /\ fresh = TRUE /\ tokenLease = NoCaller
  /\ caller = [c \in Callers |-> NoCall]
  /\ expired = 0 /\ edits = 0 /\ stranded = FALSE /\ refused = FALSE

kept == <<expired, edits, stranded, refused>>

(* The stored token comes within isolarRefreshWindow of its expiry. *)
TokenAges ==
  /\ fresh /\ provider.access < MaxToken
  /\ fresh' = FALSE /\ expired' = extra.access
  /\ UNCHANGED <<provider, extra, tokenLease, caller, edits, stranded, refused>>

(* The fast path: a fresh credential is read, then its secret, without the   *)
(* lease; otherwise the caller queues for the lease.                         *)
Ask(c) ==
  /\ caller[c].pc = "idle"
  /\ caller' = [caller EXCEPT ![c] = [NoCall EXCEPT !.since = expired,
                                        !.pc = IF fresh THEN "open" ELSE "queue"]]
  /\ UNCHANGED <<provider, extra, fresh, tokenLease, kept>>

OpenSecret(c) ==
  /\ caller[c].pc = "open"
  /\ caller' = [caller EXCEPT ![c].pc = "done", ![c].got = extra.access]
  /\ UNCHANGED <<provider, extra, fresh, tokenLease, kept>>

LeaseToken(c) ==
  /\ caller[c].pc \in {"queue", "update"} /\ tokenLease = NoCaller
  /\ tokenLease' = c
  /\ caller' = [caller EXCEPT ![c].pc = IF @ = "queue" THEN "recheck" ELSE "edit"]
  /\ UNCHANGED <<provider, extra, fresh, kept>>

\* Mutant: the credential read before the lease decides.
NoRecheck(c) ==
  /\ caller[c].pc = "recheck"
  /\ caller' = [caller EXCEPT ![c].pc = "refresh", ![c].blob = extra]
  /\ UNCHANGED <<provider, extra, fresh, tokenLease, kept>>

(* Double-checked: the credential is read again under the lease; a token     *)
(* refreshed meanwhile is handed out, else the pair to refresh with is read. *)
Recheck(c) ==
  /\ caller[c].pc = "recheck"
  /\ IF fresh
       THEN /\ caller' = [caller EXCEPT ![c].pc = "done", ![c].got = extra.access]
            /\ tokenLease' = NoCaller
       ELSE /\ caller' = [caller EXCEPT ![c].pc = "refresh", ![c].blob = extra]
            /\ UNCHANGED tokenLease
  /\ UNCHANGED <<provider, extra, fresh, kept>>

(* The provider honours its current refresh token only; it issues a new      *)
(* access token and, unless it returns none, a new refresh token.            *)
Refresh(c) ==
  /\ caller[c].pc = "refresh" /\ provider.access < MaxToken
  /\ caller[c].blob.refresh = provider.refresh
  /\ \E next \in {provider.refresh, provider.refresh + 1} :
       provider' = [access |-> provider.access + 1, refresh |-> next]
  /\ caller' = [caller EXCEPT ![c].pc = "merge", ![c].issued = provider']
  /\ UNCHANGED <<extra, fresh, tokenLease, kept>>

RefreshRefused(c) ==
  /\ caller[c].pc = "refresh"
  /\ caller[c].blob.refresh # provider.refresh \/ "refused" \in TokenFaults
  /\ refused' = (refused \/ caller[c].blob.refresh # provider.refresh)
  /\ tokenLease' = NoCaller
  /\ caller' = [caller EXCEPT ![c] = NoCall]
  /\ UNCHANGED <<provider, extra, fresh, expired, edits, stranded>>

\* Mutant: the expiry is stamped before the blob is written.
MergeStamping(c) ==
  /\ caller[c].pc = "merge"
  /\ caller' = [caller EXCEPT ![c].pc = "write",
       ![c].blob = [extra EXCEPT !.access = caller[c].issued.access,
                                 !.refresh = caller[c].issued.refresh]]
  /\ fresh' = TRUE
  /\ UNCHANGED <<provider, extra, tokenLease, kept>>

(* persistIsolarToken reads the blob, merges the pair into it, writes it ...  *)
MergeToken(c) ==
  /\ caller[c].pc = "merge"
  /\ caller' = [caller EXCEPT ![c].pc = "write",
       ![c].blob = [extra EXCEPT !.access = caller[c].issued.access,
                                 !.refresh = caller[c].issued.refresh]]
  /\ UNCHANGED <<provider, extra, fresh, tokenLease, kept>>

WriteToken(c) ==
  /\ caller[c].pc = "write"
  /\ extra' = caller[c].blob
  /\ caller' = [caller EXCEPT ![c].pc = "stamp"]
  /\ UNCHANGED <<provider, fresh, tokenLease, kept>>

(* ... and only then stamps token_expires_at and hands the token out. *)
StampExpiry(c) ==
  /\ caller[c].pc = "stamp"
  /\ fresh' = TRUE /\ tokenLease' = NoCaller
  /\ caller' = [caller EXCEPT ![c].pc = "done", ![c].got = caller[c].issued.access]
  /\ UNCHANGED <<provider, extra, kept>>

ForgetToken(c) ==
  /\ caller[c].pc = "done"
  /\ caller' = [caller EXCEPT ![c] = NoCall]
  /\ UNCHANGED <<provider, extra, fresh, tokenLease, kept>>

(* An operator's Update of the credential's Extra. *)
BeginUpdate(c) ==
  /\ caller[c].pc = "idle" /\ edits < MaxEdit
  /\ caller' = [caller EXCEPT ![c] = [NoCall EXCEPT !.pc = "update"]]
  /\ UNCHANGED <<provider, extra, fresh, tokenLease, kept>>

\* Mutant: the lease is released between the merge and the write.
MergeReleasing(c) ==
  /\ caller[c].pc = "edit"
  /\ caller' = [caller EXCEPT ![c].pc = "save", ![c].blob = [extra EXCEPT !.edit = edits + 1]]
  /\ tokenLease' = NoCaller
  /\ UNCHANGED <<provider, extra, fresh, kept>>

MergeEdit(c) ==
  /\ caller[c].pc = "edit"
  /\ caller' = [caller EXCEPT ![c].pc = "save", ![c].blob = [extra EXCEPT !.edit = edits + 1]]
  /\ UNCHANGED <<provider, extra, fresh, tokenLease, kept>>

SaveEdit(c) ==
  /\ caller[c].pc = "save"
  /\ extra' = caller[c].blob /\ edits' = caller[c].blob.edit
  /\ tokenLease' = NoCaller
  /\ caller' = [caller EXCEPT ![c] = NoCall]
  /\ UNCHANGED <<provider, fresh, expired, stranded, refused>>

(* The provider's answer is lost on the way: its pair is never stored. *)
RefreshLost(c) ==
  /\ "lost" \in TokenFaults
  /\ caller[c].pc = "merge" /\ stranded' = TRUE
  /\ tokenLease' = NoCaller
  /\ caller' = [caller EXCEPT ![c] = NoCall]
  /\ UNCHANGED <<provider, extra, fresh, expired, edits, refused>>

(* The process dies, or a step of the call fails: the lease is released or    *)
(* runs out; a pair that was issued and not written is lost.                  *)
CallDies(c) ==
  /\ "crash" \in TokenFaults
  /\ caller[c].pc # "idle"
  /\ stranded' = (stranded \/ caller[c].pc \in {"merge", "write"})
  /\ tokenLease' = IF tokenLease = c THEN NoCaller ELSE tokenLease
  /\ caller' = [caller EXCEPT ![c] = NoCall]
  /\ UNCHANGED <<provider, extra, fresh, expired, edits, refused>>

TokenNext ==
  \/ TokenAges
  \/ \E c \in Callers :
       \/ Ask(c) \/ OpenSecret(c) \/ LeaseToken(c) \/ Recheck(c) \/ Refresh(c)
       \/ RefreshRefused(c) \/ MergeToken(c) \/ WriteToken(c) \/ StampExpiry(c)
       \/ ForgetToken(c) \/ BeginUpdate(c) \/ MergeEdit(c) \/ SaveEdit(c)
       \/ RefreshLost(c) \/ CallDies(c)

TokenSpec == TokenInit /\ [][TokenNext]_tokenVars

-----------------------------------------------------------------------------
(* Types of the state; who reads, merges and writes the blob holds the lease. *)
TokenTypeOK ==
  /\ extra.access \in 1 .. provider.access /\ extra.refresh \in 1 .. provider.refresh
  /\ \A c \in Callers :
       /\ caller[c].pc \in Holding \cup {"idle", "open", "queue", "update", "done"}
       /\ caller[c].pc \in Holding => tokenLease = c

(* The stored blob keeps up with the world: unless a pair was lost on its    *)
(* way, the refresh token stored is the one the provider honours whenever no *)
(* refresh is under way, and the operator's last edit is in the blob.        *)
NotStranded ==
  /\ (\A c \in Callers : caller[c].pc \notin {"merge", "write"}) =>
       stranded \/ extra.refresh = provider.refresh
  /\ extra.edit = edits

(* Of the callers that saw one token expiring, one refreshes it: nobody      *)
(* refreshes a token that is fresh again, and no refresh is sent with a      *)
(* refresh token another has used up.                                        *)
RefreshedOnce ==
  /\ refused => stranded
  /\ \A c \in Callers : caller[c].pc = "refresh" => ~fresh

(* A token handed out had not started to expire when it was asked for.       *)
HandedOutFresh ==
  \A c \in Callers : caller[c].pc = "done" => caller[c].got > caller[c].since
=============================================================================
