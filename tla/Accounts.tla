------------------------------- MODULE Accounts --------------------------------
(***************************************************************************)
(* Sessions, user accounts and API keys of a tenant (auth.py and           *)
(* routers/auth.py, routers/admin.py).  A session is an access token and a *)
(* refresh token, good for as long as its jti is in the user's row.  The   *)
(* n-th session has both tokens n.  Left out: passwords, expiry, and the   *)
(* blacklist of access tokens in Redis, which the code passes over when    *)
(* Redis does not answer.                                                  *)
(***************************************************************************)
EXTENDS ApiRequests, Sequences

CONSTANTS
  Accounts,  \* users of the tenant, Root one of them
  Root,      \* the user that create_tenant makes, a technician, logged in
  MaxSessions

ASSUME AccountsAssumption == Root \in Accounts /\ MaxSessions \in Nat \ {0}

AccountRoles == {"technician", "analyst"}
NoAccount == [active |-> FALSE, level |-> "analyst", jti |-> 0]

VARIABLES
  accounts,     \* [Accounts -> row of users], NoAccount where there is none
  tenantActive,
  sessions,     \* Seq(Accounts): whose the n-th session stored is
  ended,        \* history: sessions there were when their user logged out
  redeemed,     \* history: [session -> how often it was refreshed]
  apiKey,       \* a row of api_keys
  keyRevoked    \* history: the revocation was answered

accountVars == <<accounts, tenantActive, sessions, ended, redeemed, apiKey, keyRevoked>>

AccountsInit ==
  /\ accounts = [u \in Accounts |->
       IF u = Root THEN [active |-> TRUE, level |-> "technician", jti |-> 1] ELSE NoAccount]
  /\ tenantActive = TRUE
  /\ sessions = <<Root>>
  /\ ended = {} /\ redeemed = [n \in 1..MaxSessions |-> 0]
  /\ apiKey = [active |-> TRUE, used |-> 0] /\ keyRevoked = FALSE

keyVars == <<apiKey, keyRevoked>>
sessionVars == <<sessions, ended, redeemed>>

Exists(u) == accounts[u] # NoAccount

(* get_current_user: by an access token.                                   *)
MayCall(u) ==
  /\ accounts[u].active
  /\ \E n \in DOMAIN sessions : sessions[n] = u
IsTechnician(u) == MayCall(u) /\ accounts[u].level = "technician"

LoginBegin(w, u) ==
  /\ tenantActive /\ accounts[u].active
  /\ Begin(w, [op |-> "login", user |-> u])
  /\ UNCHANGED <<accounts, tenantActive, sessionVars, keyVars>>

Redeemable(n) ==
  /\ accounts[sessions[n]].active
  /\ accounts[sessions[n]].jti = n

RefreshBegin(w, n) ==
  /\ Redeemable(n)
  /\ Begin(w, [op |-> "refresh", user |-> sessions[n], token |-> n])
  /\ UNCHANGED <<accounts, tenantActive, sessionVars, keyVars>>

(* store_refresh_token_jti: an UPDATE, whatever the row now holds.         *)
StoreJti(w) ==
  /\ Doing(w, "login") \/ Doing(w, "refresh")
  /\ Len(sessions) < MaxSessions
  /\ LET u == request[w].user
     IN /\ sessions' = Append(sessions, u)
        /\ accounts' = [accounts EXCEPT ![u].jti = Len(sessions) + 1]
        /\ redeemed' = IF request[w].op = "login" THEN redeemed
                       ELSE [redeemed EXCEPT ![request[w].token] = @ + 1]
  /\ Ends(w)
  /\ UNCHANGED <<tenantActive, ended, keyVars>>

LogoutBegin(w, u) ==
  /\ MayCall(u)
  /\ Begin(w, [op |-> "logout", user |-> u])
  /\ UNCHANGED <<accounts, tenantActive, sessionVars, keyVars>>

LogoutCommit(w) ==
  /\ Doing(w, "logout")
  /\ LET u == request[w].user
     IN /\ accounts' = [accounts EXCEPT ![u].jti = 0]
        /\ ended' = ended \cup {n \in DOMAIN sessions : sessions[n] = u}
  /\ Ends(w)
  /\ UNCHANGED <<tenantActive, sessions, redeemed, keyVars>>

-----------------------------------------------------------------------------
(* The username is looked up and unique in the table.                      *)
UserCreateBegin(w, by, u) ==
  /\ IsTechnician(by) /\ ~Exists(u)
  /\ \E r \in AccountRoles : Begin(w, [op |-> "create_user", user |-> u, level |-> r])
  /\ UNCHANGED <<accounts, tenantActive, sessionVars, keyVars>>

UserCreateCommit(w) ==
  /\ Doing(w, "create_user")
  /\ LET u == request[w].user
     IN accounts' = IF Exists(u) THEN accounts
                    ELSE [accounts EXCEPT ![u] = [active |-> TRUE, level |-> request[w].level, jti |-> 0]]
  /\ Ends(w)
  /\ UNCHANGED <<tenantActive, sessionVars, keyVars>>

(* update_user, and deactivate_user, which is refused for oneself: one may *)
(* deactivate oneself, by update_user, and not change one's own role.      *)
UserEditBegin(w, by, u) ==
  /\ IsTechnician(by) /\ Exists(u)
  /\ \E active \in BOOLEAN, r \in AccountRoles :
       LET after == [accounts[u] EXCEPT !.active = active, !.level = r]
       IN /\ u = by => r = accounts[u].level
          /\ after # accounts[u]
          /\ Begin(w, [op |-> "edit_user", user |-> u, before |-> accounts[u], after |-> after])
  /\ UNCHANGED <<accounts, tenantActive, sessionVars, keyVars>>

(* Mutant of EditWritten: the row is written as it was read.                    *)
EditWrittenWhole(row, before, after) == after

EditWritten(row, before, after) == Flushed(row, before, after)

UserEditCommit(w) ==
  /\ Doing(w, "edit_user")
  /\ LET r == request[w]
     IN accounts' = [accounts EXCEPT ![r.user] = EditWritten(@, r.before, r.after)]
  /\ Ends(w)
  /\ UNCHANGED <<tenantActive, sessionVars, keyVars>>

(* update_tenant by the platform.  Neither get_current_user nor refresh    *)
(* asks whether the tenant is active.                                      *)
TenantEdited ==
  /\ Statement
  /\ tenantActive' = ~tenantActive
  /\ UNCHANGED <<accounts, sessionVars, keyVars>>

-----------------------------------------------------------------------------
(* validate_api_key, whose last_used_at is committed after the check, and  *)
(* revoke_api_key.                                                         *)
KeyReadBegin(w, op) ==
  /\ op = "use_key" => apiKey.active
  /\ op = "revoke_key" => \E u \in Accounts : IsTechnician(u)
  /\ LET after == IF op = "use_key" THEN [apiKey EXCEPT !.used = calls + 1]
                  ELSE [apiKey EXCEPT !.active = FALSE]
     IN Begin(w, [op |-> op, before |-> apiKey, after |-> after])
  /\ UNCHANGED <<accounts, tenantActive, sessionVars, keyVars>>

Stamped(row, before, after) == Flushed(row, before, after)

KeyCommit(w) ==
  /\ Doing(w, "use_key") \/ Doing(w, "revoke_key")
  /\ apiKey' = Stamped(apiKey, request[w].before, request[w].after)
  /\ keyRevoked' = (keyRevoked \/ request[w].op = "revoke_key")
  /\ Ends(w)
  /\ UNCHANGED <<accounts, tenantActive, sessionVars>>

AccountsNext ==
  \/ \E w \in Workers :
       \/ \E u \in Accounts : LoginBegin(w, u) \/ LogoutBegin(w, u)
       \/ \E n \in DOMAIN sessions : RefreshBegin(w, n)
       \/ \E by, u \in Accounts : UserCreateBegin(w, by, u) \/ UserEditBegin(w, by, u)
       \/ \E op \in {"use_key", "revoke_key"} : KeyReadBegin(w, op)
       \/ StoreJti(w) \/ LogoutCommit(w) \/ UserCreateCommit(w) \/ UserEditCommit(w) \/ KeyCommit(w)
  \/ TenantEdited

AccountsSpec == RequestInit /\ AccountsInit /\ [][AccountsNext]_<<requestVars, accountVars>>

-----------------------------------------------------------------------------
AccountsTypeOK ==
  /\ accounts \in [Accounts -> [active : BOOLEAN, level : AccountRoles, jti : 0..MaxSessions]]
  /\ sessions \in Seq(Accounts) /\ Len(sessions) <= MaxSessions
  /\ ended \subseteq DOMAIN sessions
  /\ redeemed \in [1..MaxSessions -> 0..MaxSessions]
  /\ apiKey \in [active : BOOLEAN, used : 0..MaxCalls]
  /\ tenantActive \in BOOLEAN /\ keyRevoked \in BOOLEAN

LastSession(u) ==
  LET own == {n \in DOMAIN sessions : sessions[n] = u}
  IN IF own = {} THEN 0 ELSE CHOOSE n \in own : \A m \in own : m <= n

(* The one refresh token of a user that works is that of the session       *)
(* stored last, and none does after the logout that followed: an edit of   *)
(* the account that overlaps a logout, a login or a refresh brings no      *)
(* session back and ends none.                                             *)
SessionIsLast ==
  \A u \in Accounts :
    accounts[u].jti = IF LastSession(u) \in ended THEN 0 ELSE LastSession(u)

(* "invalidates previous refresh token": a refresh token is redeemed once, *)
(* unless two requests with it overlap.                                    *)
RedeemedOnce == crossed \/ \A n \in DOMAIN redeemed : redeemed[n] <= 1

(* A revoked API key stays revoked, a use of it under way or not.          *)
RevokedStays == keyRevoked => ~apiKey.active

(* Sessions and keys end when they were ended and not before, whichever    *)
(* edits of the same rows are under way.                                   *)
SessionsSound == AccountsTypeOK /\ SessionIsLast /\ RedeemedOnce /\ RevokedStays
=============================================================================
