-------------------------- MODULE Administration_proofs ------------------------
(***************************************************************************)
(* Proofs about the administration of a tenant, for any number of          *)
(* requests, processes, accounts, replicas, sources and rows: sessions and *)
(* API keys, settings, field mappings and external validation.  The        *)
(* components share the table of requests and are proved one by one, each  *)
(* of its own specification.  The last part is about answers that the API  *)
(* computes from tables it only reads.                                     *)
(***************************************************************************)
EXTENDS Accounts, TenantSettings, MappingVersions, ExternalValidation, FieldMapping,
        Answers, ApiRequests_proofs, SequenceTheorems, FiniteSetTheorems

-----------------------------------------------------------------------------
(***************************************************************************)
(* Proof that sessions and API keys end when they were ended and not       *)
(* before, for any number of accounts, sessions and requests.  An edit of  *)
(* an account never assigns the jti, a request with a refresh token that   *)
(* is alone still finds the jti it read, and nothing assigns TRUE to a     *)
(* key's active column.                                                    *)
(***************************************************************************)

AccountOf == [active : BOOLEAN, level : AccountRoles, jti : 0..MaxSessions]
KeyOf == [active : BOOLEAN, used : 0..MaxCalls]
Stored == 1..Len(sessions)
Tokens == 1..MaxSessions
Own(u) == {n \in DOMAIN sessions : sessions[n] = u}

AccountsTyped ==
  /\ accounts \in [Accounts -> AccountOf]
  /\ sessions \in Seq(Accounts) /\ Len(sessions) <= MaxSessions
  /\ ended \subseteq Stored
  /\ redeemed \in [Tokens -> Nat] /\ \A n \in Tokens : redeemed[n] < Len(sessions)
  /\ apiKey \in KeyOf
  /\ tenantActive \in BOOLEAN /\ keyRevoked \in BOOLEAN

(* What a request under way holds.                                         *)
HoldsSound(w) ==
  LET r == request[w]
  IN /\ Doing(w, "login") \/ Doing(w, "logout") => r.user \in Accounts
     /\ Doing(w, "refresh") =>
          r.user \in Accounts /\ r.token \in Stored /\ sessions[r.token] = r.user
     /\ Doing(w, "create_user") => r.user \in Accounts /\ r.level \in AccountRoles
     /\ Doing(w, "edit_user") =>
          r.user \in Accounts /\ r.before \in AccountOf /\ r.after \in AccountOf /\ r.before.jti = r.after.jti
     /\ Doing(w, "use_key") => r.before \in KeyOf /\ r.after \in KeyOf /\ r.before.active = r.after.active
     /\ Doing(w, "revoke_key") =>
          r.before \in KeyOf /\ r.after \in KeyOf /\ ~r.after.active /\ (r.before.active \/ ~apiKey.active)

(* A refresh that is alone finds its token in the row.                     *)
StillGood(w) ==
  ~crossed /\ Doing(w, "refresh") => accounts[request[w].user].jti = request[w].token

(* A token that was redeemed is no longer in the row.                      *)
RedeemedGone(n) ==
  redeemed[n] > 0 => redeemed[n] = 1 /\ n \in Stored /\ accounts[sessions[n]].jti # n

AccountsInv ==
  /\ RequestInv
  /\ AccountsTyped
  /\ \A w \in Workers : HoldsSound(w)
  /\ \A w \in Workers : StillGood(w)
  /\ SessionIsLast
  /\ ~crossed => \A n \in Tokens : RedeemedGone(n)
  /\ RevokedStays

(* The session of a user that was stored last.                             *)
LEMMA LastFacts ==
  ASSUME AccountsTyped, NEW u
  PROVE  \/ Own(u) = {} /\ LastSession(u) = 0
         \/ LastSession(u) \in Own(u) /\ \A m \in Own(u) : m <= LastSession(u)
<1>1. DOMAIN sessions = Stored
  BY DEF Stored, AccountsTyped
<1>2. LastSession(u) = IF Own(u) = {} THEN 0 ELSE CHOOSE n \in Own(u) : \A m \in Own(u) : m <= n
  BY DEF LastSession, Own
<1>3. Own(u) # {} => \E n \in Own(u) : \A m \in Own(u) : m <= n
  <2>1. Own(u) \subseteq Nat /\ Len(sessions) \in Nat /\ \A n \in Own(u) : n <= Len(sessions)
    BY <1>1 DEF Own, Stored, AccountsTyped
  <2> QED
    BY <2>1, GreatestExists
<1> QED
  BY <1>2, <1>3

(* It stays while no session is stored.                                    *)
LEMMA SameSessions ==
  ASSUME UNCHANGED sessions, NEW u
  PROVE  LastSession(u)' = LastSession(u)
BY DEF LastSession

(* Rows and requests in the initial state.                                 *)
LEMMA AccountsInitInv == RequestInit /\ AccountsInit => AccountsInv
<1> SUFFICES ASSUME RequestInit, AccountsInit PROVE AccountsInv
  OBVIOUS
<1> USE AccountsAssumption DEF AccountsInit
<1>1. RequestInv /\ \A w \in Workers : request[w] = None
  BY RequestsInit
<1>2. sessions \in Seq(Accounts) /\ Len(sessions) = 1 /\ sessions[1] = Root
  OBVIOUS
<1>3. AccountsTyped
  <2>1. accounts \in [Accounts -> AccountOf]
    BY DEF AccountOf, AccountRoles, NoAccount
  <2>2. apiKey \in KeyOf
    BY RequestAssumption DEF KeyOf
  <2>3. redeemed \in [Tokens -> Nat] /\ \A n \in Tokens : redeemed[n] < Len(sessions)
    BY <1>2 DEF Tokens
  <2>4. tenantActive \in BOOLEAN /\ keyRevoked \in BOOLEAN
    OBVIOUS
  <2> QED
    BY <1>2, <2>1, <2>2, <2>3, <2>4 DEF AccountsTyped, Stored
<1>4. \A w \in Workers : HoldsSound(w) /\ StillGood(w)
  BY <1>1 DEF HoldsSound, StillGood, Doing
<1>5. ASSUME NEW u \in Accounts PROVE accounts[u].jti = LastSession(u)
  <2>1. CASE u = Root
    <3>1. Own(u) = {1}
      BY <1>2, <2>1 DEF Own, Stored
    <3>2. LastSession(u) = 1
      BY <1>3, <3>1, LastFacts
    <3> QED
      BY <2>1, <3>2
  <2>2. CASE u # Root
    <3>1. Own(u) = {}
      BY <1>2, <2>2 DEF Own, Stored
    <3>2. LastSession(u) = 0
      BY <1>3, <3>1, LastFacts
    <3> QED
      BY <2>2, <3>2 DEF NoAccount
  <2> QED
    BY <2>1, <2>2
<1>6. SessionIsLast
  BY <1>5 DEF SessionIsLast
<1>7. (\A n \in Tokens : RedeemedGone(n)) /\ RevokedStays
  BY DEF RedeemedGone, RevokedStays, Tokens
<1> QED
  BY <1>1, <1>3, <1>4, <1>6, <1>7 DEF AccountsInv

-----------------------------------------------------------------------------
(* The columns of a row after a commit.                                    *)
LEMMA FlushedColumns ==
  ASSUME NEW row, NEW before, NEW after, NEW c \in DOMAIN row
  PROVE  /\ DOMAIN Flushed(row, before, after) = DOMAIN row
         /\ Flushed(row, before, after)[c] = IF after[c] # before[c] THEN after[c] ELSE row[c]
BY DEF Flushed

(* A row that is edited keeps its jti.                                     *)
LEMMA EditKeeps ==
  ASSUME NEW row \in AccountOf, NEW before \in AccountOf, NEW after \in AccountOf, before.jti = after.jti
  PROVE  EditWritten(row, before, after) \in AccountOf /\ EditWritten(row, before, after).jti = row.jti
<1> DEFINE r == EditWritten(row, before, after)
<1>1. r = [column \in {"active", "level", "jti"} |->
              IF after[column] # before[column] THEN after[column] ELSE row[column]]
  BY DEF EditWritten, Flushed, AccountOf
<1>2. r = [active |-> r.active, level |-> r.level, jti |-> r.jti]
  BY <1>1
<1>3. r.active \in BOOLEAN /\ r.level \in AccountRoles /\ r.jti = row.jti
  BY <1>1 DEF AccountOf
<1> HIDE DEF r
<1>4. r \in AccountOf
  BY <1>2, <1>3 DEF AccountOf
<1> QED
  BY <1>3, <1>4 DEF r

(* A key that is used or revoked gets no column set to active.             *)
LEMMA StampKeeps ==
  ASSUME NEW row \in KeyOf, NEW before \in KeyOf, NEW after \in KeyOf
  PROVE  /\ Stamped(row, before, after) \in KeyOf
         /\ Stamped(row, before, after).active = IF after.active # before.active THEN after.active ELSE row.active
<1> DEFINE r == Stamped(row, before, after)
<1>1. r = [column \in {"active", "used"} |-> IF after[column] # before[column] THEN after[column] ELSE row[column]]
  BY DEF Stamped, Flushed, KeyOf
<1>2. r = [active |-> r.active, used |-> r.used]
  BY <1>1
<1>3. r.active = (IF after.active # before.active THEN after.active ELSE row.active) /\ r.used \in 0..MaxCalls
  BY <1>1 DEF KeyOf
<1>4. r.active \in BOOLEAN
  BY <1>3 DEF KeyOf
<1> HIDE DEF r
<1>5. r \in KeyOf
  BY <1>2, <1>3, <1>4 DEF KeyOf
<1> QED
  BY <1>3, <1>5 DEF r

(* A request that only read.                                               *)
LEMMA AccountsBeginInv ==
  ASSUME AccountsInv, NEW w \in Workers, NEW r, Begin(w, r), UNCHANGED accountVars, HoldsSound(w)', StillGood(w)'
  PROVE  AccountsInv'
<1>1. /\ RequestInv'
      /\ request'[w] = r /\ \A v \in Workers \ {w} : request'[v] = request[v]
      /\ ~crossed' => ~crossed /\ \A v \in Workers \ {w} : request'[v] = None
  BY BeginStep DEF AccountsInv
<1>2. AccountsTyped' /\ SessionIsLast' /\ RevokedStays'
  <2>1. UNCHANGED <<accounts, tenantActive, sessions, ended, redeemed, apiKey, keyRevoked>>
    BY DEF accountVars
  <2>2. \A u \in Accounts : LastSession(u)' = LastSession(u)
    BY <2>1, SameSessions
  <2>3. SessionIsLast'
    BY <2>1, <2>2 DEF AccountsInv, SessionIsLast
  <2> QED
    BY <2>1, <2>3 DEF AccountsInv, AccountsTyped, Stored, RevokedStays
<1>3. \A v \in Workers \ {w} : HoldsSound(v)' /\ StillGood(v)'
  <2> SUFFICES ASSUME NEW v \in Workers \ {w} PROVE HoldsSound(v)' /\ StillGood(v)'
    OBVIOUS
  <2>1. request'[v] = request[v] /\ UNCHANGED <<accounts, sessions, apiKey>> /\ HoldsSound(v)
    BY <1>1 DEF accountVars, AccountsInv
  <2>2. HoldsSound(v)'
    BY <2>1 DEF HoldsSound, Doing, Stored
  <2>3. StillGood(v)'
    BY <1>1 DEF StillGood, Doing
  <2> QED
    BY <2>2, <2>3
<1>4. ~crossed' => \A n \in Tokens : RedeemedGone(n)'
  BY <1>1 DEF accountVars, AccountsInv, RedeemedGone, Stored
<1> QED
  BY <1>1, <1>2, <1>3, <1>4 DEF AccountsInv

(* A request ends: the others hold what they held, and none is left while  *)
(* no two were under way at once.                                          *)
LEMMA EndsHolds ==
  ASSUME AccountsInv, NEW w \in Workers, request[w] # None, Ends(w),
         \A n \in Stored : n \in Stored' /\ sessions'[n] = sessions[n],
         ~apiKey.active => ~apiKey'.active
  PROVE  RequestInv' /\ UNCHANGED crossed /\ \A v \in Workers : HoldsSound(v)' /\ StillGood(v)'
<1>1. /\ RequestInv' /\ UNCHANGED crossed
      /\ request'[w] = None /\ \A v \in Workers \ {w} : request'[v] = request[v]
      /\ ~crossed => \A v \in Workers \ {w} : request'[v] = None
  BY GoesOnStep DEF Ends, AccountsInv
<1>2. HoldsSound(w)' /\ StillGood(w)'
  BY <1>1 DEF HoldsSound, StillGood, Doing
<1>3. ASSUME NEW v \in Workers \ {w} PROVE HoldsSound(v)' /\ StillGood(v)'
  <2>1. request'[v] = request[v] /\ HoldsSound(v)
    BY <1>1 DEF AccountsInv
  <2>2. HoldsSound(v)'
    BY <2>1 DEF HoldsSound, Doing
  <2>3. StillGood(v)'
    BY <1>1 DEF StillGood, Doing
  <2> QED
    BY <2>2, <2>3
<1> QED
  BY <1>1, <1>2, <1>3

(* The tokens of a login or a refresh are stored.                          *)
LEMMA StoreJtiInv ==
  ASSUME AccountsInv, NEW w \in Workers, StoreJti(w)
  PROVE  AccountsInv'
<1> DEFINE u == request[w].user
<1> DEFINE n == Len(sessions) + 1
<1>1. /\ u \in Accounts /\ request[w] # None
      /\ request[w].op # "login" =>
           Doing(w, "refresh") /\ request[w].token \in Stored /\ sessions[request[w].token] = u
  BY DEF StoreJti, AccountsInv, HoldsSound, Doing
<1>2. /\ sessions \in Seq(Accounts) /\ Len(sessions) \in Nat /\ Len(sessions) < MaxSessions /\ MaxSessions \in Nat
      /\ DOMAIN sessions = Stored /\ ended \subseteq Stored
      /\ accounts \in [Accounts -> AccountOf] /\ redeemed \in [Tokens -> Nat]
  BY AccountsAssumption DEF StoreJti, AccountsInv, AccountsTyped, Stored
<1>3. /\ sessions' = Append(sessions, u)
      /\ accounts' = [accounts EXCEPT ![u].jti = n]
      /\ redeemed' = IF request[w].op = "login" THEN redeemed ELSE [redeemed EXCEPT ![request[w].token] = @ + 1]
      /\ Ends(w) /\ UNCHANGED <<tenantActive, ended, apiKey, keyRevoked>>
  BY DEF StoreJti, keyVars
<1> HIDE DEF u
<1>4. /\ sessions' \in Seq(Accounts) /\ Len(sessions') = n
      /\ \A m \in Stored : sessions'[m] = sessions[m]
      /\ sessions'[n] = u
  BY <1>1, <1>2, <1>3, AppendProperties DEF Stored
<1>5. /\ Stored' = Stored \cup {n} /\ DOMAIN sessions' = Stored' /\ n \notin Stored /\ n \in Nat
      /\ \A m \in Stored : m < n
  BY <1>2, <1>4 DEF Stored
<1>6. RequestInv' /\ UNCHANGED crossed /\ \A v \in Workers : HoldsSound(v)' /\ StillGood(v)'
  BY <1>1, <1>3, <1>4, <1>5, EndsHolds
<1>7. /\ accounts' \in [Accounts -> AccountOf]
      /\ accounts'[u].jti = n
      /\ \A x \in Accounts : x # u => accounts'[x] = accounts[x]
  <2>1. n \in 0..MaxSessions
    BY <1>2
  <2> HIDE DEF n
  <2> QED
    BY <1>1, <1>2, <1>3, <2>1 DEF AccountOf
<1>8. redeemed' \in [Tokens -> Nat] /\ \A m \in Tokens : redeemed'[m] < n
  <2>0. \A m \in Tokens : redeemed[m] < Len(sessions)
    BY DEF AccountsInv, AccountsTyped
  <2>1. CASE request[w].op = "login"
    BY <2>0, <2>1, <1>2, <1>3
  <2>2. CASE request[w].op # "login"
    <3>1. request[w].token \in Tokens
      BY <1>1, <1>2, <2>2 DEF Stored, Tokens
    <3> QED
      BY <2>0, <2>2, <3>1, <1>2, <1>3
  <2> QED
    BY <2>1, <2>2
<1>9. AccountsTyped'
  <2>1. /\ Len(sessions') <= MaxSessions /\ ended' \subseteq Stored' /\ apiKey' \in KeyOf
        /\ tenantActive' \in BOOLEAN /\ keyRevoked' \in BOOLEAN
    BY <1>2, <1>3, <1>4, <1>5 DEF AccountsInv, AccountsTyped
  <2> QED
    BY <1>4, <1>7, <1>8, <2>1 DEF AccountsTyped
<1>10. SessionIsLast'
  <2> SUFFICES ASSUME NEW x \in Accounts
               PROVE  accounts'[x].jti = IF LastSession(x)' \in ended' THEN 0 ELSE LastSession(x)'
    BY DEF SessionIsLast
  <2>1. \/ Own(x)' = {} /\ LastSession(x)' = 0
        \/ LastSession(x)' \in Own(x)' /\ \A m \in Own(x)' : m <= LastSession(x)'
    <3>1. LastSession(x)' = IF Own(x)' = {} THEN 0 ELSE CHOOSE m \in Own(x)' : \A k \in Own(x)' : k <= m
      BY DEF LastSession, Own
    <3>2. Own(x)' \subseteq Nat /\ \A m \in Own(x)' : m <= n
      BY <1>2, <1>5 DEF Own, Stored
    <3>3. Own(x)' # {} => \E m \in Own(x)' : \A k \in Own(x)' : k <= m
      BY <3>2, <1>5, GreatestExists
    <3> QED
      BY <3>1, <3>3
  <2>2. CASE x = u
    <3>1. n \in Own(x)' /\ Own(x)' \subseteq Stored'
      BY <1>4, <1>5, <2>2 DEF Own
    <3>2. LastSession(x)' = n
      <4>1. LastSession(x)' \in Stored' /\ n <= LastSession(x)'
        BY <3>1, <2>1
      <4>2. LastSession(x)' = n \/ LastSession(x)' \in Stored
        BY <4>1, <1>5
      <4>3. LastSession(x)' \in Stored => LastSession(x)' < n /\ LastSession(x)' \in Nat
        BY <1>5 DEF Stored
      <4> QED
        BY <4>1, <4>2, <4>3, <1>5
    <3> QED
      BY <3>2, <2>2, <1>2, <1>3, <1>5, <1>7
  <2>3. CASE x # u
    <3>1. Own(x)' = Own(x)
      BY <1>2, <1>4, <1>5, <2>3 DEF Own
    <3>2. LastSession(x)' = LastSession(x)
      <4>1. Own(x) \subseteq Nat
        BY <1>2 DEF Own, Stored
      <4>2. \/ Own(x) = {} /\ LastSession(x) = 0
            \/ LastSession(x) \in Own(x) /\ \A m \in Own(x) : m <= LastSession(x)
        BY LastFacts DEF AccountsInv
      <4> QED
        BY <3>1, <4>1, <4>2, <2>1
    <3> QED
      BY <3>2, <2>3, <1>3, <1>7 DEF AccountsInv, SessionIsLast
  <2> QED
    BY <2>2, <2>3
<1>11. ASSUME ~crossed', NEW m \in Tokens PROVE RedeemedGone(m)'
  <2>1. RedeemedGone(m) /\ redeemed[m] \in Nat /\ ~crossed
    BY <1>2, <1>6, <1>11 DEF AccountsInv
  <2>2. ASSUME m \in Stored
        PROVE m \in Stored' /\ (accounts'[sessions'[m]].jti # m \/ accounts[sessions[m]].jti = m)
    <3>1. m \in Stored' /\ sessions'[m] = sessions[m] /\ m # n
      BY <2>2, <1>4, <1>5
    <3>2. sessions[m] \in Accounts
      BY <2>2, <1>2, ElementOfSeq DEF Stored
    <3> QED
      BY <3>1, <3>2, <1>7
  <2>3. CASE redeemed'[m] = redeemed[m]
    BY <2>1, <2>2, <2>3, <1>5 DEF RedeemedGone
  <2>4. CASE redeemed'[m] # redeemed[m]
    <3>1. request[w].op # "login" /\ m = request[w].token /\ redeemed'[m] = redeemed[m] + 1
      BY <2>4, <1>2, <1>3
    <3>2. accounts[u].jti = m /\ m \in Stored /\ sessions[m] = u
      BY <3>1, <1>1, <2>1 DEF AccountsInv, StillGood, u
    <3>3. redeemed[m] = 0
      BY <3>2, <2>1 DEF RedeemedGone
    <3>4. accounts'[sessions'[m]].jti # m /\ m \in Stored'
      BY <3>2, <1>4, <1>5, <1>7
    <3> QED
      BY <3>1, <3>3, <3>4 DEF RedeemedGone
  <2> QED
    BY <2>3, <2>4
<1>12. RevokedStays'
  BY <1>3 DEF AccountsInv, RevokedStays
<1> QED
  BY <1>6, <1>9, <1>10, <1>11, <1>12 DEF AccountsInv

(* A user logs out.                                                        *)
LEMMA LogoutCommitInv ==
  ASSUME AccountsInv, NEW w \in Workers, LogoutCommit(w)
  PROVE  AccountsInv'
<1> DEFINE u == request[w].user
<1>1. /\ u \in Accounts /\ request[w] # None /\ Ends(w)
      /\ accounts' = [accounts EXCEPT ![u].jti = 0]
      /\ ended' = ended \cup {n \in DOMAIN sessions : sessions[n] = u}
      /\ UNCHANGED <<tenantActive, sessions, redeemed, apiKey, keyRevoked>>
  BY DEF LogoutCommit, keyVars, AccountsInv, HoldsSound, Doing
<1> HIDE DEF u
<1>2. RequestInv' /\ UNCHANGED crossed /\ \A v \in Workers : HoldsSound(v)' /\ StillGood(v)'
  BY <1>1, EndsHolds DEF Stored
<1>3. /\ accounts' \in [Accounts -> AccountOf]
      /\ accounts'[u].jti = 0
      /\ \A x \in Accounts : x # u => accounts'[x] = accounts[x]
  BY <1>1, AccountsAssumption DEF AccountsInv, AccountsTyped, AccountOf
<1>4. ended' = ended \cup Own(u) /\ DOMAIN sessions = Stored
  BY <1>1 DEF Own, Stored, AccountsInv, AccountsTyped
<1>5. AccountsTyped'
  BY <1>1, <1>3, <1>4 DEF AccountsInv, AccountsTyped, Stored, Own
<1>6. SessionIsLast'
  <2> SUFFICES ASSUME NEW x \in Accounts
               PROVE  accounts'[x].jti = IF LastSession(x) \in ended' THEN 0 ELSE LastSession(x)
    BY <1>1, SameSessions DEF SessionIsLast
  <2>1. \/ Own(x) = {} /\ LastSession(x) = 0
        \/ LastSession(x) \in Own(x) /\ \A m \in Own(x) : m <= LastSession(x)
    BY LastFacts DEF AccountsInv
  <2>2. CASE x = u
    BY <2>1, <2>2, <1>3, <1>4
  <2>3. CASE x # u
    <3>1. 0 \notin Stored
      BY DEF Stored
    <3>2. LastSession(x) \notin Own(u)
      BY <2>1, <2>3, <3>1, <1>4 DEF Own
    <3> QED
      BY <3>2, <2>3, <1>3, <1>4 DEF AccountsInv, SessionIsLast
  <2> QED
    BY <2>2, <2>3
<1>7. ASSUME ~crossed', NEW m \in Tokens PROVE RedeemedGone(m)'
  <2> SUFFICES ASSUME redeemed[m] > 0
               PROVE  redeemed[m] = 1 /\ m \in Stored /\ accounts'[sessions[m]].jti # m
    BY <1>1 DEF RedeemedGone, Stored
  <2>1. redeemed[m] = 1 /\ m \in Stored /\ accounts[sessions[m]].jti # m
    BY <1>2, <1>7 DEF AccountsInv, RedeemedGone
  <2>2. sessions[m] \in Accounts /\ m # 0
    BY <2>1, ElementOfSeq DEF Stored, AccountsInv, AccountsTyped
  <2> QED
    BY <2>1, <2>2, <1>3
<1> QED
  BY <1>1, <1>2, <1>5, <1>6, <1>7 DEF AccountsInv, RevokedStays

(* Rows are created or edited, and no session is stored or ended.          *)
LEMMA RowsEditedInv ==
  ASSUME AccountsInv, NEW w \in Workers, request[w] # None, Ends(w),
         UNCHANGED <<tenantActive, sessions, ended, redeemed, apiKey, keyRevoked>>,
         accounts' \in [Accounts -> AccountOf], \A x \in Accounts : accounts'[x].jti = accounts[x].jti
  PROVE  AccountsInv'
<1>1. RequestInv' /\ UNCHANGED crossed /\ \A v \in Workers : HoldsSound(v)' /\ StillGood(v)'
  BY EndsHolds DEF Stored
<1>2. AccountsTyped' /\ RevokedStays'
  BY DEF AccountsInv, AccountsTyped, Stored, RevokedStays
<1>3. SessionIsLast'
  BY SameSessions DEF AccountsInv, SessionIsLast
<1>4. ASSUME ~crossed', NEW m \in Tokens PROVE RedeemedGone(m)'
  <2>1. RedeemedGone(m)
    BY <1>1, <1>4 DEF AccountsInv
  <2>2. m \in Stored => sessions[m] \in Accounts
    BY ElementOfSeq DEF Stored, AccountsInv, AccountsTyped
  <2> QED
    BY <2>1, <2>2 DEF RedeemedGone, Stored
<1> QED
  BY <1>1, <1>2, <1>3, <1>4 DEF AccountsInv

(* A user is created or edited.                                            *)
LEMMA UserCommitInv ==
  ASSUME AccountsInv, NEW w \in Workers, UserCreateCommit(w) \/ UserEditCommit(w)
  PROVE  AccountsInv'
<1> DEFINE r == request[w]
<1>1. accounts \in [Accounts -> AccountOf] /\ HoldsSound(w)
  BY DEF AccountsInv, AccountsTyped
<1>2. CASE UserCreateCommit(w)
  <2>1. r.user \in Accounts /\ r.level \in AccountRoles
    BY <1>1, <1>2 DEF UserCreateCommit, HoldsSound
  <2>2. /\ request[w] # None /\ Ends(w) /\ UNCHANGED <<tenantActive, sessions, ended, redeemed, apiKey, keyRevoked>>
        /\ accounts' = IF Exists(r.user) THEN accounts
                       ELSE [accounts EXCEPT ![r.user] = [active |-> TRUE, level |-> r.level, jti |-> 0]]
    BY <1>2 DEF UserCreateCommit, Doing, sessionVars, keyVars
  <2>3. ~Exists(r.user) => accounts[r.user].jti = 0
    BY DEF Exists, NoAccount
  <2> HIDE DEF r
  <2>4. accounts' \in [Accounts -> AccountOf] /\ \A x \in Accounts : accounts'[x].jti = accounts[x].jti
    BY <1>1, <2>1, <2>2, <2>3 DEF AccountOf
  <2> QED
    BY <2>2, <2>4, RowsEditedInv
<1>3. CASE UserEditCommit(w)
  <2>1. r.user \in Accounts /\ r.before \in AccountOf /\ r.after \in AccountOf /\ r.before.jti = r.after.jti
    BY <1>1, <1>3 DEF UserEditCommit, HoldsSound
  <2>2. /\ request[w] # None /\ Ends(w) /\ UNCHANGED <<tenantActive, sessions, ended, redeemed, apiKey, keyRevoked>>
        /\ accounts' = [accounts EXCEPT ![r.user] = EditWritten(accounts[r.user], r.before, r.after)]
    BY <1>3 DEF UserEditCommit, Doing, sessionVars, keyVars
  <2> HIDE DEF r
  <2>3. /\ EditWritten(accounts[r.user], r.before, r.after) \in AccountOf
        /\ EditWritten(accounts[r.user], r.before, r.after).jti = accounts[r.user].jti
    BY <1>1, <2>1, EditKeeps
  <2>4. accounts' \in [Accounts -> AccountOf] /\ \A x \in Accounts : accounts'[x].jti = accounts[x].jti
    BY <1>1, <2>1, <2>2, <2>3
  <2> QED
    BY <2>2, <2>4, RowsEditedInv
<1> QED
  BY <1>2, <1>3

(* A key is used or revoked.                                               *)
LEMMA KeyCommitInv ==
  ASSUME AccountsInv, NEW w \in Workers, KeyCommit(w)
  PROVE  AccountsInv'
<1> DEFINE r == request[w]
<1>1. /\ HoldsSound(w) /\ apiKey \in KeyOf /\ request[w] # None /\ Ends(w)
      /\ r.op = "revoke_key" \/ (r.op = "use_key" /\ r.op # "revoke_key")
      /\ apiKey' = Stamped(apiKey, r.before, r.after)
      /\ keyRevoked' = (keyRevoked \/ r.op = "revoke_key")
      /\ UNCHANGED <<accounts, tenantActive, sessions, ended, redeemed>>
  BY DEF KeyCommit, Doing, sessionVars, AccountsInv, AccountsTyped
<1>2. /\ r.before \in KeyOf /\ r.after \in KeyOf
      /\ r.op = "use_key" => r.before.active = r.after.active
      /\ r.op = "revoke_key" => ~r.after.active /\ (r.before.active \/ ~apiKey.active)
  BY <1>1 DEF HoldsSound, Doing
<1> HIDE DEF r
<1>3. /\ apiKey' \in KeyOf
      /\ apiKey'.active = IF r.after.active # r.before.active THEN r.after.active ELSE apiKey.active
  BY <1>1, <1>2, StampKeeps
<1>4. r.before.active \in BOOLEAN /\ r.after.active \in BOOLEAN /\ apiKey.active \in BOOLEAN
  BY <1>1, <1>2 DEF KeyOf
<1>5. (~apiKey.active => ~apiKey'.active) /\ (r.op = "revoke_key" => ~apiKey'.active)
  BY <1>1, <1>2, <1>3, <1>4
<1>6. RequestInv' /\ UNCHANGED crossed /\ \A v \in Workers : HoldsSound(v)' /\ StillGood(v)'
  BY <1>1, <1>5, EndsHolds DEF Stored
<1>7. AccountsTyped' /\ RevokedStays'
  <2>1. keyRevoked' \in BOOLEAN
    BY <1>1 DEF AccountsInv, AccountsTyped
  <2> QED
    BY <1>1, <1>3, <1>5, <2>1 DEF AccountsInv, AccountsTyped, Stored, RevokedStays
<1>8. SessionIsLast'
  BY <1>1, SameSessions DEF AccountsInv, SessionIsLast
<1>9. ~crossed' => \A m \in Tokens : RedeemedGone(m)'
  BY <1>1, <1>6 DEF AccountsInv, RedeemedGone, Stored
<1> QED
  BY <1>6, <1>7, <1>8, <1>9 DEF AccountsInv

(* The requests that read.                                                 *)
LEMMA ReadsInv ==
  ASSUME AccountsInv, NEW w \in Workers, NEW u, NEW by, NEW n, NEW op \in {"use_key", "revoke_key"},
         \/ u \in Accounts /\ (LoginBegin(w, u) \/ LogoutBegin(w, u))
         \/ n \in DOMAIN sessions /\ RefreshBegin(w, n)
         \/ u \in Accounts /\ (UserCreateBegin(w, by, u) \/ UserEditBegin(w, by, u))
         \/ KeyReadBegin(w, op)
  PROVE  AccountsInv'
<1>1. /\ accounts \in [Accounts -> AccountOf] /\ apiKey \in KeyOf
      /\ DOMAIN sessions = Stored /\ \A m \in Stored : sessions[m] \in Accounts
  BY ElementOfSeq DEF AccountsInv, AccountsTyped, Stored
<1> DEFINE Reads(r) == Begin(w, r) /\ UNCHANGED accountVars
<1>2. ASSUME NEW r, Reads(r), r.op \in {"login", "logout"}, r.user \in Accounts PROVE AccountsInv'
  <2>1. request'[w] = r
    BY <1>2, BeginStep DEF AccountsInv
  <2>2. HoldsSound(w)' /\ StillGood(w)'
    BY <1>2, <2>1 DEF HoldsSound, StillGood, Doing
  <2> QED
    BY <1>2, <2>2, AccountsBeginInv
<1>3. ASSUME NEW r, Reads(r), r.op = "refresh", r.user \in Accounts, r.token \in Stored, sessions[r.token] = r.user,
             accounts[r.user].jti = r.token
      PROVE  AccountsInv'
  <2>1. request'[w] = r /\ UNCHANGED <<accounts, sessions>>
    BY <1>3, BeginStep DEF AccountsInv, accountVars
  <2>2. HoldsSound(w)' /\ StillGood(w)'
    BY <1>3, <2>1 DEF HoldsSound, StillGood, Doing, Stored
  <2> QED
    BY <1>3, <2>2, AccountsBeginInv
<1>4. ASSUME NEW r, Reads(r), r.op = "create_user", r.user \in Accounts, r.level \in AccountRoles PROVE AccountsInv'
  <2>1. request'[w] = r
    BY <1>4, BeginStep DEF AccountsInv
  <2>2. HoldsSound(w)' /\ StillGood(w)'
    BY <1>4, <2>1 DEF HoldsSound, StillGood, Doing
  <2> QED
    BY <1>4, <2>2, AccountsBeginInv
<1>5. ASSUME NEW r, Reads(r), r.op = "edit_user", r.user \in Accounts, r.before \in AccountOf, r.after \in AccountOf,
             r.before.jti = r.after.jti
      PROVE  AccountsInv'
  <2>1. request'[w] = r
    BY <1>5, BeginStep DEF AccountsInv
  <2>2. HoldsSound(w)' /\ StillGood(w)'
    BY <1>5, <2>1 DEF HoldsSound, StillGood, Doing
  <2> QED
    BY <1>5, <2>2, AccountsBeginInv
<1>6. ASSUME NEW r, Reads(r), r.before = apiKey, r.after \in KeyOf,
             \/ r.op = "use_key" /\ r.before.active = r.after.active
             \/ r.op = "revoke_key" /\ ~r.after.active
      PROVE  AccountsInv'
  <2>1. request'[w] = r /\ apiKey' = apiKey
    BY <1>6, BeginStep DEF AccountsInv, accountVars
  <2>2. HoldsSound(w)' /\ StillGood(w)'
    BY <1>1, <1>6, <2>1 DEF HoldsSound, StillGood, Doing
  <2> QED
    BY <1>6, <2>2, AccountsBeginInv
<1>7. CASE u \in Accounts /\ (LoginBegin(w, u) \/ LogoutBegin(w, u))
  BY <1>2, <1>7 DEF LoginBegin, LogoutBegin, accountVars, sessionVars, keyVars
<1>8. CASE n \in DOMAIN sessions /\ RefreshBegin(w, n)
  BY <1>1, <1>3, <1>8 DEF RefreshBegin, Redeemable, accountVars, sessionVars, keyVars
<1>9. CASE u \in Accounts /\ UserCreateBegin(w, by, u)
  BY <1>4, <1>9 DEF UserCreateBegin, accountVars, sessionVars, keyVars
<1>10. CASE u \in Accounts /\ UserEditBegin(w, by, u)
  <2>1. PICK active \in BOOLEAN, level \in AccountRoles :
          Begin(w, [op |-> "edit_user", user |-> u, before |-> accounts[u],
                    after |-> [accounts[u] EXCEPT !.active = active, !.level = level]])
    BY <1>10 DEF UserEditBegin
  <2>2. /\ accounts[u] \in AccountOf
        /\ [accounts[u] EXCEPT !.active = active, !.level = level] \in AccountOf
        /\ [accounts[u] EXCEPT !.active = active, !.level = level].jti = accounts[u].jti
    BY <1>1, <1>10 DEF AccountOf
  <2>3. UNCHANGED accountVars
    BY <1>10 DEF UserEditBegin, accountVars, sessionVars, keyVars
  <2> QED
    BY <2>1, <2>2, <2>3, <1>5, <1>10
<1>11. CASE KeyReadBegin(w, op)
  <2>1. calls + 1 \in 0..MaxCalls
    BY <1>11, RequestAssumption DEF KeyReadBegin, Begin, AccountsInv, RequestInv, RequestTypeOK
  <2>2. UNCHANGED accountVars
    BY <1>11 DEF KeyReadBegin, accountVars, sessionVars, keyVars
  <2>3. CASE op = "use_key"
    <3>1. [apiKey EXCEPT !.used = calls + 1] \in KeyOf /\ [apiKey EXCEPT !.used = calls + 1].active = apiKey.active
      BY <1>1, <2>1 DEF KeyOf
    <3>2. Begin(w, [op |-> op, before |-> apiKey, after |-> [apiKey EXCEPT !.used = calls + 1]])
      BY <1>11, <2>3 DEF KeyReadBegin
    <3> QED
      BY <3>1, <3>2, <2>2, <2>3, <1>6
  <2>4. CASE op = "revoke_key"
    <3>1. [apiKey EXCEPT !.active = FALSE] \in KeyOf /\ ~[apiKey EXCEPT !.active = FALSE].active
      BY <1>1 DEF KeyOf
    <3>2. Begin(w, [op |-> op, before |-> apiKey, after |-> [apiKey EXCEPT !.active = FALSE]])
      BY <1>11, <2>4 DEF KeyReadBegin
    <3> QED
      BY <3>1, <3>2, <2>2, <2>4, <1>6
  <2> QED
    BY <2>3, <2>4
<1> QED
  BY <1>7, <1>8, <1>9, <1>10, <1>11

(* Every step preserves the invariant.                                     *)
LEMMA AccountsNextInv == AccountsInv /\ [AccountsNext]_<<requestVars, accountVars>> => AccountsInv'
<1> SUFFICES ASSUME AccountsInv, [AccountsNext]_<<requestVars, accountVars>> PROVE AccountsInv'
  OBVIOUS
<1>1. CASE TenantEdited \/ UNCHANGED <<requestVars, accountVars>>
  <2>1. RequestInv' /\ UNCHANGED <<request, crossed>>
    BY <1>1, StatementStep DEF AccountsInv, TenantEdited
  <2>2. UNCHANGED <<accounts, sessions, ended, redeemed, apiKey, keyRevoked>> /\ tenantActive' \in BOOLEAN
    BY <1>1 DEF TenantEdited, accountVars, sessionVars, keyVars, AccountsInv, AccountsTyped
  <2>3. SessionIsLast'
    BY <2>2, SameSessions DEF AccountsInv, SessionIsLast
  <2>4. \A w \in Workers : HoldsSound(w)' /\ StillGood(w)'
    BY <2>1, <2>2 DEF AccountsInv, HoldsSound, StillGood, Doing, Stored
  <2> QED
    BY <2>1, <2>2, <2>3, <2>4 DEF AccountsInv, AccountsTyped, RedeemedGone, RevokedStays, Stored
<1>2. ASSUME NEW w \in Workers,
             StoreJti(w) \/ LogoutCommit(w) \/ UserCreateCommit(w) \/ UserEditCommit(w) \/ KeyCommit(w)
      PROVE  AccountsInv'
  BY <1>2, StoreJtiInv, LogoutCommitInv, UserCommitInv, KeyCommitInv
<1>3. ASSUME NEW w \in Workers, NEW u \in Accounts, LoginBegin(w, u) \/ LogoutBegin(w, u) PROVE AccountsInv'
  BY <1>3, ReadsInv
<1>4. ASSUME NEW w \in Workers, NEW n \in DOMAIN sessions, RefreshBegin(w, n) PROVE AccountsInv'
  BY <1>4, ReadsInv
<1>5. ASSUME NEW w \in Workers, NEW by \in Accounts, NEW u \in Accounts,
             UserCreateBegin(w, by, u) \/ UserEditBegin(w, by, u)
      PROVE  AccountsInv'
  BY <1>5, ReadsInv
<1>6. ASSUME NEW w \in Workers, NEW op \in {"use_key", "revoke_key"}, KeyReadBegin(w, op) PROVE AccountsInv'
  BY <1>6, ReadsInv
<1> QED
  BY <1>1, <1>2, <1>3, <1>4, <1>5, <1>6 DEF AccountsNext

(* A refresh token works exactly while its session is the last one stored  *)
(* and not logged out, is redeemed once unless requests overlap, and a     *)
(* revoked API key stays revoked, whichever edits are under way.           *)
THEOREM SessionsAreSound == AccountsSpec => []SessionsSound
<1>1. RequestInit /\ AccountsInit => AccountsInv
  BY AccountsInitInv
<1>2. AccountsInv /\ [AccountsNext]_<<requestVars, accountVars>> => AccountsInv'
  BY AccountsNextInv
<1>3. AccountsInv => SessionsSound
  <2> SUFFICES ASSUME AccountsInv PROVE RedeemedOnce /\ AccountsTypeOK
    BY DEF AccountsInv, SessionsSound
  <2>0. AccountsTypeOK
    <3>1. AccountsTyped /\ DOMAIN sessions = Stored /\ MaxSessions \in Nat
      BY AccountsAssumption DEF AccountsInv, AccountsTyped, Stored
    <3>2. redeemed \in [1..MaxSessions -> 0..MaxSessions]
      BY <3>1 DEF AccountsTyped, Tokens
    <3> QED
      BY <3>1, <3>2 DEF AccountsTyped, AccountsTypeOK, AccountOf, KeyOf
  <2>1. ASSUME ~crossed, NEW n \in DOMAIN redeemed PROVE redeemed[n] <= 1
    <3>1. RedeemedGone(n) /\ redeemed[n] \in Nat
      BY <2>1 DEF AccountsInv, AccountsTyped
    <3> QED
      BY <3>1 DEF RedeemedGone
  <2> QED
    BY <2>0, <2>1 DEF RedeemedOnce
<1> QED
  BY <1>1, <1>2, <1>3, PTL DEF AccountsSpec

-----------------------------------------------------------------------------
(***************************************************************************)
(* Proof that a replica goes by the maintenance flag within the life of a  *)
(* cache entry and that the limits of the bands stay in order, for any     *)
(* number of replicas, requests and ticks.  What is in a cache is as old   *)
(* as the clock when its lookup began, so that the invariant follows each  *)
(* value from where it was read to the cache.                              *)
(***************************************************************************)

IsOn == flag = "on"
LimitRows == [low : Bands, high : Bands]

(* What a lookup that is under way has read: another value than the flag   *)
(* only if the flag was changed since its clock was taken.                 *)
LookupSound(w) ==
  /\ Doing(w, "lookup") \/ Doing(w, "store") =>
       request[w].at \in Replicas /\ request[w].now \in Nat /\ request[w].now <= moment
  /\ Doing(w, "store") =>
       /\ request[w].on \in BOOLEAN /\ request[w].sure \in BOOLEAN
       /\ request[w].sure /\ request[w].on # IsOn => request[w].now <= flaggedAt

(* The handler of a toggle puts into the cache what it committed in this   *)
(* moment, or somebody else has committed since, in this moment too.       *)
ToggleSound(w) ==
  /\ Doing(w, "toggle") \/ Doing(w, "put_flag") \/ Doing(w, "cache") =>
       request[w].at \in Replicas /\ request[w].on \in BOOLEAN
  /\ Doing(w, "cache") => (request[w].on # IsOn => flaggedAt = moment)

(* An update of the limits that is alone compared the row as it is.        *)
LimitsRequestSound(w) ==
  Doing(w, "limits") =>
    /\ request[w].before \in LimitRows /\ request[w].after \in LimitRows
    /\ request[w].after.low < request[w].after.high
    /\ ~crossed => request[w].before = limits

RequestsSound ==
  \A w \in Workers : LookupSound(w) /\ ToggleSound(w) /\ LimitsRequestSound(w)

(* An entry is good for no longer than its life, and for no longer than    *)
(* that after the flag was changed if it holds another value.              *)
EntrySound(r) ==
  /\ cached[r].until <= moment + CacheTtl
  /\ cached[r].sure /\ cached[r].on # IsOn => cached[r].until <= flaggedAt + CacheTtl

SettingsInv ==
  /\ RequestInv
  /\ SettingsTypeOK
  /\ flaggedAt <= moment
  /\ RequestsSound
  /\ \A r \in Replicas : EntrySound(r)
  /\ BandsOrdered

(* The initial state satisfies the invariant.                              *)
LEMMA SettingsInitInv == RequestInit /\ SettingsInit => SettingsInv
<1> SUFFICES ASSUME RequestInit, SettingsInit PROVE SettingsInv
  OBVIOUS
<1> USE SettingsAssumption
<1>1. RequestInv /\ \A w \in Workers : request[w] = None
  BY RequestsInit
<1>2. SettingsTypeOK /\ flaggedAt <= moment
  BY DEF SettingsInit, SettingsTypeOK
<1>3. RequestsSound
  BY <1>1 DEF RequestsSound, LookupSound, ToggleSound, LimitsRequestSound, Doing
<1>4. \A r \in Replicas : EntrySound(r)
  BY DEF SettingsInit, EntrySound, IsOn
<1>5. BandsOrdered
  BY DEF SettingsInit, BandsOrdered
<1> QED
  BY <1>1, <1>2, <1>3, <1>4, <1>5 DEF SettingsInv

(* The other requests stay sound where flag, clock and limits stay.        *)
LEMMA OthersSound ==
  ASSUME SettingsInv, UNCHANGED <<moment, flag, flaggedAt, limits>>,
         NEW w \in Workers, \A v \in Workers \ {w} : request'[v] = request[v],
         crossed => crossed'
  PROVE  \A v \in Workers \ {w} : LookupSound(v)' /\ ToggleSound(v)' /\ LimitsRequestSound(v)'
<1> SUFFICES ASSUME NEW v \in Workers \ {w}
             PROVE  LookupSound(v)' /\ ToggleSound(v)' /\ LimitsRequestSound(v)'
  OBVIOUS
<1>1. LookupSound(v) /\ ToggleSound(v) /\ LimitsRequestSound(v)
  BY DEF SettingsInv, RequestsSound
<1>2. LookupSound(v)'
  BY <1>1 DEF LookupSound, Doing, IsOn
<1>3. ToggleSound(v)'
  BY <1>1 DEF ToggleSound, Doing, IsOn
<1>4. LimitsRequestSound(v)'
  BY <1>1 DEF LimitsRequestSound, Doing, LimitRows
<1> QED
  BY <1>2, <1>3, <1>4

-----------------------------------------------------------------------------
(* Lookups.                                                                *)

(* A lookup takes the time.                                                *)
LEMMA LookupBeginInv ==
  ASSUME SettingsInv, NEW w \in Workers, NEW r \in Replicas, LookupBegin(w, r) PROVE SettingsInv'
<1> DEFINE q == [op |-> "lookup", at |-> r, now |-> moment]
<1>1. RequestInv' /\ request'[w] = q /\ \A v \in Workers \ {w} : request'[v] = request[v]
  BY BeginStep DEF SettingsInv, LookupBegin
<1>2. UNCHANGED <<moment, flag, flaggedAt, cached, limits>> /\ (~crossed' => ~crossed)
  BY BeginStep DEF SettingsInv, LookupBegin
<1>3. LookupSound(w)' /\ ToggleSound(w)' /\ LimitsRequestSound(w)'
  BY <1>1, <1>2 DEF LookupSound, ToggleSound, LimitsRequestSound, Doing, SettingsInv, SettingsTypeOK
<1>4. RequestsSound'
  BY <1>1, <1>2, <1>3, OthersSound DEF RequestsSound
<1>5. SettingsTypeOK' /\ (flaggedAt <= moment)' /\ (\A p \in Replicas : EntrySound(p))'
  BY <1>2 DEF SettingsInv, SettingsTypeOK, EntrySound, IsOn
<1>6. BandsOrdered'
  BY <1>2 DEF SettingsInv, BandsOrdered
<1> QED
  BY <1>1, <1>4, <1>5, <1>6 DEF SettingsInv

(* It reads the flag, or fails to.                                         *)
LEMMA LookupReadInv ==
  ASSUME SettingsInv, NEW w \in Workers, LookupRead(w) PROVE SettingsInv'
<1>1. PICK on \in BOOLEAN, sure \in BOOLEAN :
        /\ sure => on = IsOn
        /\ GoesOn(w, [op |-> "store", at |-> request[w].at, now |-> request[w].now, on |-> on, sure |-> sure])
  BY DEF LookupRead, IsOn
<1>2. request[w] # None /\ Doing(w, "lookup")
  BY DEF LookupRead, Doing
<1>3. /\ RequestInv' /\ UNCHANGED crossed /\ \A v \in Workers \ {w} : request'[v] = request[v]
      /\ request'[w] = [op |-> "store", at |-> request[w].at, now |-> request[w].now, on |-> on, sure |-> sure]
  BY <1>1, <1>2, GoesOnStep DEF SettingsInv
<1>4. UNCHANGED <<moment, flag, flaggedAt, cached, limits>>
  BY DEF LookupRead
<1>5. LookupSound(w)
  BY DEF SettingsInv, RequestsSound
<1>6. LookupSound(w)' /\ ToggleSound(w)' /\ LimitsRequestSound(w)'
  BY <1>1, <1>2, <1>3, <1>4, <1>5 DEF LookupSound, ToggleSound, LimitsRequestSound, Doing, IsOn
<1>7. RequestsSound'
  BY <1>3, <1>4, <1>6, OthersSound DEF RequestsSound
<1>8. SettingsTypeOK' /\ (flaggedAt <= moment)' /\ (\A p \in Replicas : EntrySound(p))'
  BY <1>4 DEF SettingsInv, SettingsTypeOK, EntrySound, IsOn
<1>9. BandsOrdered'
  BY <1>3, <1>4 DEF SettingsInv, BandsOrdered
<1> QED
  BY <1>3, <1>7, <1>8, <1>9 DEF SettingsInv

(* It writes the entry, which is good from when the time was taken.        *)
LEMMA LookupStoreInv ==
  ASSUME SettingsInv, NEW w \in Workers, LookupStore(w) PROVE SettingsInv'
<1> USE SettingsAssumption
<1> DEFINE e == [on |-> request[w].on, until |-> Until(w), sure |-> request[w].sure]
           r == request[w].at
<1>1. request[w] # None /\ Doing(w, "store") /\ LookupSound(w)
  BY DEF LookupStore, Doing, SettingsInv, RequestsSound
<1>2. /\ RequestInv' /\ UNCHANGED crossed /\ \A v \in Workers \ {w} : request'[v] = request[v]
      /\ request'[w] = None
  BY <1>1, GoesOnStep DEF SettingsInv, LookupStore, Ends
<1>3. UNCHANGED <<moment, flag, flaggedAt, limits>>
  BY DEF LookupStore
<1>4. /\ r \in Replicas /\ e.until <= moment + CacheTtl
      /\ e.sure /\ e.on # IsOn => e.until <= flaggedAt + CacheTtl
      /\ e \in [on : BOOLEAN, until : 0..(LastMoment + CacheTtl), sure : BOOLEAN]
  BY <1>1 DEF LookupSound, Until, SettingsInv, SettingsTypeOK
<1>5. cached' = [cached EXCEPT ![r] = e]
  BY DEF LookupStore
<1> HIDE DEF e
<1>6. /\ cached' \in [Replicas -> [on : BOOLEAN, until : 0..(LastMoment + CacheTtl), sure : BOOLEAN]]
      /\ cached'[r] = e /\ \A q \in Replicas \ {r} : cached'[q] = cached[q]
  BY <1>4, <1>5 DEF SettingsInv, SettingsTypeOK
<1>7. SettingsTypeOK' /\ (flaggedAt <= moment)'
  BY <1>3, <1>6 DEF SettingsInv, SettingsTypeOK
<1>8. (\A p \in Replicas : EntrySound(p))'
  BY <1>3, <1>4, <1>6 DEF SettingsInv, EntrySound, IsOn
<1>9. LookupSound(w)' /\ ToggleSound(w)' /\ LimitsRequestSound(w)'
  BY <1>2 DEF LookupSound, ToggleSound, LimitsRequestSound, Doing
<1>10. RequestsSound'
  BY <1>2, <1>3, <1>9, OthersSound DEF RequestsSound
<1>11. BandsOrdered'
  BY <1>2, <1>3 DEF SettingsInv, BandsOrdered
<1> QED
  BY <1>2, <1>7, <1>8, <1>10, <1>11 DEF SettingsInv

-----------------------------------------------------------------------------
(* The flag.                                                               *)

(* A toggle begins.                                                        *)
LEMMA ToggleBeginInv ==
  ASSUME SettingsInv, NEW w \in Workers, NEW r \in Replicas, NEW op \in {"toggle", "put_flag"}, NEW on \in BOOLEAN,
         ToggleBegin(w, r, op, on)
  PROVE  SettingsInv'
<1> DEFINE q == [op |-> op, at |-> r, on |-> on, insert |-> flag = "none"]
<1>1. RequestInv' /\ request'[w] = q /\ \A v \in Workers \ {w} : request'[v] = request[v]
  BY BeginStep DEF SettingsInv, ToggleBegin
<1>2. UNCHANGED <<moment, flag, flaggedAt, cached, limits>> /\ (~crossed' => ~crossed)
  BY BeginStep DEF SettingsInv, ToggleBegin
<1>3. LookupSound(w)' /\ ToggleSound(w)' /\ LimitsRequestSound(w)'
  BY <1>1, <1>2 DEF LookupSound, ToggleSound, LimitsRequestSound, Doing
<1>4. RequestsSound'
  BY <1>1, <1>2, <1>3, OthersSound DEF RequestsSound
<1>5. SettingsTypeOK' /\ (flaggedAt <= moment)' /\ (\A p \in Replicas : EntrySound(p))'
  BY <1>2 DEF SettingsInv, SettingsTypeOK, EntrySound, IsOn
<1>6. BandsOrdered'
  BY <1>2 DEF SettingsInv, BandsOrdered
<1> QED
  BY <1>1, <1>4, <1>5, <1>6 DEF SettingsInv

(* The flag is committed: what was read before was read by now.            *)
LEMMA ToggleCommitInv ==
  ASSUME SettingsInv, NEW w \in Workers, ToggleCommit(w) PROVE SettingsInv'
<1> USE SettingsAssumption
<1>1. request[w] # None /\ (Doing(w, "toggle") \/ Doing(w, "put_flag")) /\ ToggleSound(w)
  BY DEF ToggleCommit, Doing, SettingsInv, RequestsSound
<1>2. UNCHANGED <<moment, cached, limits>>
  BY DEF ToggleCommit
<1>3. CASE request[w].insert /\ flag # "none"
  <2>1. /\ RequestInv' /\ UNCHANGED <<crossed, flag, flaggedAt>> /\ request'[w] = None
        /\ \A v \in Workers \ {w} : request'[v] = request[v]
    BY <1>1, <1>3, GoesOnStep DEF SettingsInv, ToggleCommit, Ends
  <2>2. LookupSound(w)' /\ ToggleSound(w)' /\ LimitsRequestSound(w)'
    BY <2>1 DEF LookupSound, ToggleSound, LimitsRequestSound, Doing
  <2>3. RequestsSound'
    BY <1>2, <2>1, <2>2, OthersSound DEF RequestsSound
  <2>4. SettingsTypeOK' /\ (flaggedAt <= moment)' /\ (\A p \in Replicas : EntrySound(p))' /\ BandsOrdered'
    BY <1>2, <2>1 DEF SettingsInv, SettingsTypeOK, EntrySound, IsOn, BandsOrdered
  <2> QED
    BY <2>1, <2>3, <2>4 DEF SettingsInv
<1>4. CASE ~(request[w].insert /\ flag # "none")
  <2>1. flag' = (IF request[w].on THEN "on" ELSE "off") /\ flaggedAt' = moment
    BY <1>4 DEF ToggleCommit
  <2>2. PICK q \in {None, [op |-> "cache", at |-> request[w].at, on |-> request[w].on]} : GoesOn(w, q)
    BY <1>4 DEF ToggleCommit, Ends
  <2>3. /\ RequestInv' /\ UNCHANGED crossed /\ request'[w] = q
        /\ \A v \in Workers \ {w} : request'[v] = request[v]
    BY <1>1, <2>2, GoesOnStep DEF SettingsInv
  <2>4. LookupSound(w)' /\ ToggleSound(w)' /\ LimitsRequestSound(w)'
    BY <1>1, <1>2, <2>1, <2>3 DEF LookupSound, ToggleSound, LimitsRequestSound, Doing, IsOn
  <2>5. ASSUME NEW v \in Workers \ {w}
        PROVE  LookupSound(v)' /\ ToggleSound(v)' /\ LimitsRequestSound(v)'
    <3>1. LookupSound(v) /\ ToggleSound(v) /\ LimitsRequestSound(v)
      BY DEF SettingsInv, RequestsSound
    <3>2. LookupSound(v)'
      BY <1>2, <2>1, <2>3, <3>1 DEF LookupSound, Doing, IsOn
    <3>3. ToggleSound(v)'
      BY <1>2, <2>1, <2>3, <3>1 DEF ToggleSound, Doing, IsOn
    <3>4. LimitsRequestSound(v)'
      BY <1>2, <2>3, <3>1 DEF LimitsRequestSound, Doing, LimitRows
    <3> QED
      BY <3>2, <3>3, <3>4
  <2>6. RequestsSound'
    BY <2>4, <2>5 DEF RequestsSound
  <2>7. SettingsTypeOK' /\ (flaggedAt <= moment)'
    BY <1>2, <2>1 DEF SettingsInv, SettingsTypeOK
  <2>8. (\A p \in Replicas : EntrySound(p))'
    BY <1>2, <2>1 DEF SettingsInv, EntrySound
  <2>9. BandsOrdered'
    BY <1>2, <2>3 DEF SettingsInv, BandsOrdered
  <2> QED
    BY <2>3, <2>6, <2>7, <2>8, <2>9 DEF SettingsInv
<1> QED
  BY <1>3, <1>4

(* The handler writes the entry of its own replica.                        *)
LEMMA ToggleCacheInv ==
  ASSUME SettingsInv, NEW w \in Workers, ToggleCache(w) PROVE SettingsInv'
<1> USE SettingsAssumption
<1> DEFINE e == [on |-> request[w].on, until |-> moment + CacheTtl, sure |-> TRUE]
           r == request[w].at
<1>1. request[w] # None /\ Doing(w, "cache") /\ ToggleSound(w)
  BY DEF ToggleCache, Doing, SettingsInv, RequestsSound
<1>2. /\ RequestInv' /\ UNCHANGED crossed /\ \A v \in Workers \ {w} : request'[v] = request[v]
      /\ request'[w] = None
  BY <1>1, GoesOnStep DEF SettingsInv, ToggleCache, Ends
<1>3. UNCHANGED <<moment, flag, flaggedAt, limits>>
  BY DEF ToggleCache
<1>4. /\ r \in Replicas /\ e.until <= moment + CacheTtl
      /\ e.sure /\ e.on # IsOn => e.until <= flaggedAt + CacheTtl
      /\ e \in [on : BOOLEAN, until : 0..(LastMoment + CacheTtl), sure : BOOLEAN]
  BY <1>1 DEF ToggleSound, SettingsInv, SettingsTypeOK
<1>5. cached' = [cached EXCEPT ![r] = e]
  BY DEF ToggleCache
<1> HIDE DEF e
<1>6. /\ cached' \in [Replicas -> [on : BOOLEAN, until : 0..(LastMoment + CacheTtl), sure : BOOLEAN]]
      /\ cached'[r] = e /\ \A q \in Replicas \ {r} : cached'[q] = cached[q]
  BY <1>4, <1>5 DEF SettingsInv, SettingsTypeOK
<1>7. SettingsTypeOK' /\ (flaggedAt <= moment)'
  BY <1>3, <1>6 DEF SettingsInv, SettingsTypeOK
<1>8. (\A p \in Replicas : EntrySound(p))'
  BY <1>3, <1>4, <1>6 DEF SettingsInv, EntrySound, IsOn
<1>9. LookupSound(w)' /\ ToggleSound(w)' /\ LimitsRequestSound(w)'
  BY <1>2 DEF LookupSound, ToggleSound, LimitsRequestSound, Doing
<1>10. RequestsSound'
  BY <1>2, <1>3, <1>9, OthersSound DEF RequestsSound
<1>11. BandsOrdered'
  BY <1>2, <1>3 DEF SettingsInv, BandsOrdered
<1> QED
  BY <1>2, <1>7, <1>8, <1>10, <1>11 DEF SettingsInv

(* Time passes where no toggle is on its way to the cache.                 *)
LEMMA MomentInv == ASSUME SettingsInv, MomentPasses PROVE SettingsInv'
<1> USE SettingsAssumption
<1>1. RequestInv' /\ UNCHANGED <<request, crossed>>
  BY StatementStep DEF SettingsInv, MomentPasses, requestVars
<1>2. UNCHANGED <<flag, flaggedAt, cached, limits>> /\ moment' = moment + 1 /\ moment' \in 0..LastMoment
  BY DEF MomentPasses, SettingsInv, SettingsTypeOK
<1>3. ASSUME NEW v \in Workers PROVE LookupSound(v)' /\ ToggleSound(v)' /\ LimitsRequestSound(v)'
  <2>1. LookupSound(v) /\ ToggleSound(v) /\ LimitsRequestSound(v) /\ ~Doing(v, "cache")
    BY DEF SettingsInv, RequestsSound, MomentPasses
  <2>2. LookupSound(v)'
    BY <1>1, <1>2, <2>1 DEF LookupSound, Doing, IsOn, SettingsInv, SettingsTypeOK
  <2>3. ToggleSound(v)' /\ LimitsRequestSound(v)'
    BY <1>1, <1>2, <2>1 DEF ToggleSound, LimitsRequestSound, Doing, LimitRows
  <2> QED
    BY <2>2, <2>3
<1>4. SettingsTypeOK' /\ (flaggedAt <= moment)'
  BY <1>2 DEF SettingsInv, SettingsTypeOK
<1>5. (\A p \in Replicas : EntrySound(p))'
  BY <1>2 DEF SettingsInv, EntrySound, IsOn, SettingsTypeOK
<1>6. BandsOrdered'
  BY <1>1, <1>2 DEF SettingsInv, BandsOrdered
<1> QED
  BY <1>1, <1>3, <1>4, <1>5, <1>6 DEF SettingsInv, RequestsSound

-----------------------------------------------------------------------------
(* The limits of the bands.                                                *)

(* An update compares the limits as the row would have them.               *)
LEMMA LimitsBeginInv ==
  ASSUME SettingsInv, NEW w \in Workers, LimitsBegin(w) PROVE SettingsInv'
<1>1. PICK columns \in (SUBSET {"low", "high"}) \ {{}} : \E body \in [columns -> Bands] :
        Allowed(limits, body) /\ Begin(w, [op |-> "limits", before |-> limits, after |-> Merged(limits, body)])
  BY DEF LimitsBegin
<1>2. PICK body \in [columns -> Bands] :
        Allowed(limits, body) /\ Begin(w, [op |-> "limits", before |-> limits, after |-> Merged(limits, body)])
  BY <1>1
<1> DEFINE q == [op |-> "limits", before |-> limits, after |-> Merged(limits, body)]
<1>3. limits \in LimitRows
  BY DEF SettingsInv, SettingsTypeOK, LimitRows
<1>4. Merged(limits, body) \in LimitRows /\ Merged(limits, body).low < Merged(limits, body).high
  BY <1>2, <1>3 DEF Merged, LimitRows, Allowed
<1>5. /\ RequestInv' /\ request'[w] = q /\ \A v \in Workers \ {w} : request'[v] = request[v]
      /\ ~crossed' => ~crossed
  BY <1>2, BeginStep DEF SettingsInv
<1>6. UNCHANGED <<moment, flag, flaggedAt, cached, limits>>
  BY DEF LimitsBegin
<1>7. LookupSound(w)' /\ ToggleSound(w)' /\ LimitsRequestSound(w)'
  BY <1>3, <1>4, <1>5, <1>6 DEF LookupSound, ToggleSound, LimitsRequestSound, Doing
<1>8. RequestsSound'
  BY <1>5, <1>6, <1>7, OthersSound DEF RequestsSound
<1>9. SettingsTypeOK' /\ (flaggedAt <= moment)' /\ (\A p \in Replicas : EntrySound(p))'
  BY <1>6 DEF SettingsInv, SettingsTypeOK, EntrySound, IsOn
<1>10. BandsOrdered'
  BY <1>5, <1>6 DEF SettingsInv, BandsOrdered
<1> QED
  BY <1>5, <1>8, <1>9, <1>10 DEF SettingsInv

(* The commit writes the columns that were given another value: what was   *)
(* compared if the update was alone.                                       *)
LEMMA LimitsCommitInv ==
  ASSUME SettingsInv, NEW w \in Workers, LimitsCommit(w) PROVE SettingsInv'
<1> USE SettingsAssumption
<1>1. request[w] # None /\ Doing(w, "limits") /\ LimitsRequestSound(w)
  BY DEF LimitsCommit, Doing, SettingsInv, RequestsSound
<1>2. /\ RequestInv' /\ UNCHANGED crossed /\ request'[w] = None
      /\ \A v \in Workers \ {w} : request'[v] = request[v]
      /\ ~crossed => \A v \in Workers \ {w} : request'[v] = None
  BY <1>1, GoesOnStep DEF SettingsInv, LimitsCommit, Ends
<1>3. UNCHANGED <<moment, flag, flaggedAt, cached>>
  BY DEF LimitsCommit
<1>4. limits \in LimitRows /\ request[w].before \in LimitRows /\ request[w].after \in LimitRows
  BY <1>1 DEF LimitsRequestSound, SettingsInv, SettingsTypeOK, LimitRows
<1>5. limits' \in LimitRows
      /\ (~crossed => limits'.low = request[w].after.low /\ limits'.high = request[w].after.high)
  BY <1>1, <1>4 DEF LimitsCommit, Flushed, LimitRows, LimitsRequestSound
<1>6. ASSUME NEW v \in Workers PROVE LookupSound(v)' /\ ToggleSound(v)' /\ LimitsRequestSound(v)'
  <2>1. CASE v = w
    BY <1>2, <2>1 DEF LookupSound, ToggleSound, LimitsRequestSound, Doing
  <2>2. CASE v # w
    <3>1. LookupSound(v) /\ ToggleSound(v) /\ LimitsRequestSound(v) /\ request'[v] = request[v]
      BY <1>2, <2>2 DEF SettingsInv, RequestsSound
    <3>2. LookupSound(v)' /\ ToggleSound(v)'
      BY <1>3, <3>1 DEF LookupSound, ToggleSound, Doing, IsOn
    <3>3. LimitsRequestSound(v)'
      BY <1>2, <2>2, <3>1 DEF LimitsRequestSound, Doing, LimitRows
    <3> QED
      BY <3>2, <3>3
  <2> QED
    BY <2>1, <2>2
<1>7. SettingsTypeOK' /\ (flaggedAt <= moment)' /\ (\A p \in Replicas : EntrySound(p))'
  BY <1>3, <1>5 DEF SettingsInv, SettingsTypeOK, EntrySound, IsOn, LimitRows
<1>8. BandsOrdered'
  BY <1>1, <1>2, <1>5 DEF SettingsInv, BandsOrdered, LimitsRequestSound
<1> QED
  BY <1>2, <1>6, <1>7, <1>8 DEF SettingsInv, RequestsSound

-----------------------------------------------------------------------------
(* Every step keeps the invariant.                                         *)
LEMMA SettingsNextInv ==
  ASSUME SettingsInv, [SettingsNext]_<<requestVars, settingsVars>> PROVE SettingsInv'
<1>1. CASE SettingsNext
  BY <1>1, LookupBeginInv, LookupReadInv, LookupStoreInv, ToggleBeginInv, ToggleCommitInv,
     ToggleCacheInv, MomentInv, LimitsBeginInv, LimitsCommitInv DEF SettingsNext
<1>2. CASE UNCHANGED <<requestVars, settingsVars>>
  <2>1. UNCHANGED <<request, calls, crossed, moment, flag, flaggedAt, cached, limits>>
    BY <1>2 DEF requestVars, settingsVars
  <2>2. RequestInv'
    BY <2>1 DEF SettingsInv, RequestInv, RequestTypeOK, OneAtATime
  <2>3. SettingsTypeOK' /\ (flaggedAt <= moment)' /\ BandsOrdered'
    BY <2>1 DEF SettingsInv, SettingsTypeOK, BandsOrdered
  <2>4. RequestsSound' /\ (\A p \in Replicas : EntrySound(p))'
    BY <2>1 DEF SettingsInv, RequestsSound, LookupSound, ToggleSound, LimitsRequestSound, Doing, IsOn,
                LimitRows, EntrySound
  <2> QED
    BY <2>2, <2>3, <2>4 DEF SettingsInv
<1> QED
  BY <1>1, <1>2

(* A replica that acts on another value than the maintenance flag does so  *)
(* within the life of an entry after the change, unless its lookup failed; *)
(* and limits that were compared one update at a time are in order.        *)
THEOREM SettingsAreSound == SettingsSpec => []SettingsSound
<1>1. SettingsInv => SettingsSound
  <2> SUFFICES ASSUME SettingsInv, NEW r \in Replicas, Current(r), cached[r].sure, cached[r].on # IsOn
               PROVE  moment < flaggedAt + CacheTtl
    BY DEF SettingsInv, SettingsSound, MaintenanceArrives, IsOn
  <2>1. cached[r].until <= flaggedAt + CacheTtl /\ moment < cached[r].until
    BY DEF SettingsInv, EntrySound, Current
  <2> QED
    BY <2>1, SettingsAssumption DEF SettingsInv, SettingsTypeOK
<1> QED
  BY <1>1, SettingsInitInv, SettingsNextInv, PTL DEF SettingsSpec

-----------------------------------------------------------------------------
(***************************************************************************)
(* Proof that ingestion finds a mapping once one was saved, and finds the  *)
(* last, for any number of sources, saves and requests.  Overlapping saves *)
(* can leave two current rows, never none: a save clears what it saw and   *)
(* inserts a current row of the same group in the same commit.             *)
(***************************************************************************)

SavedRow == [group : Groups, version : 1..MaxCalls, current : BOOLEAN, config : 1..MaxCalls]
Saved == 1..Len(mappings)

MappingTyped ==
  /\ mappings \in Seq(SavedRow)
  /\ \A i \in Saved : mappings[i].version <= calls

Saves(w) == Doing(w, "save") \/ Doing(w, "insert")

(* What a save under way holds.                                            *)
MappingHoldsTyped(w) ==
  /\ Saves(w) =>
       /\ request[w].group \in Groups /\ request[w].config \in 1..MaxCalls
       /\ request[w].version \in Nat \ {0} /\ request[w].version <= calls
  /\ Doing(w, "insert") => \A i \in request[w].cleared : i \in Saved /\ mappings[i].group = request[w].group

(* A save that is alone has the next version and clears all rows.          *)
HoldsLast(w) ==
  /\ Saves(w) => \A i \in Saved : mappings[i].group = request[w].group => mappings[i].version < request[w].version
  /\ Doing(w, "insert") => \A i \in Saved : mappings[i].group = request[w].group => i \in request[w].cleared

(* Of each group one row is current.                                       *)
SomeCurrent ==
  \A g \in Groups :
    (\E i \in Saved : mappings[i].group = g) => \E i \in Saved : mappings[i].group = g /\ mappings[i].current

(* Two rows of a group are in the order of their versions, and the first   *)
(* is not current; without overlap, that is.                               *)
InOrder(i, j) ==
  i < j /\ mappings[i].group = mappings[j].group => mappings[i].version < mappings[j].version /\ ~mappings[i].current

MappingInv ==
  /\ RequestInv
  /\ MappingTyped
  /\ \A w \in Workers : MappingHoldsTyped(w)
  /\ SomeCurrent
  /\ ~crossed => \A w \in Workers : HoldsLast(w)
  /\ ~crossed => \A i, j \in Saved : InOrder(i, j)

(* The initial state satisfies the invariant.                              *)
LEMMA MappingInitInv == RequestInit /\ MappingInit => MappingInv
<1> SUFFICES ASSUME RequestInit, MappingInit PROVE MappingInv
  OBVIOUS
<1>1. RequestInv /\ \A w \in Workers : request[w] = None
  BY RequestsInit
<1>2. mappings \in Seq(SavedRow) /\ Saved = {}
  BY EmptySeq DEF MappingInit, Saved
<1>3. \A w \in Workers : MappingHoldsTyped(w) /\ HoldsLast(w)
  BY <1>1 DEF MappingHoldsTyped, HoldsLast, Saves, Doing
<1> QED
  BY <1>1, <1>2, <1>3 DEF MappingInv, MappingTyped, SomeCurrent

-----------------------------------------------------------------------------
(* The numbers of versions.                                                *)

(* A row, typed.                                                           *)
LEMMA MappingRowFacts ==
  ASSUME MappingTyped, NEW i \in Saved
  PROVE  /\ mappings[i] \in SavedRow /\ mappings[i].group \in Groups /\ mappings[i].config \in 1..MaxCalls
         /\ mappings[i].version \in Nat \ {0} /\ mappings[i].current \in BOOLEAN
<1>1. mappings[i] \in SavedRow
  BY ElementOfSeq DEF MappingTyped, Saved
<1> QED
  BY <1>1 DEF SavedRow

(* The next version is a new one, the highest.                             *)
LEMMA NextVersionFacts ==
  ASSUME MappingTyped, calls \in Nat, NEW g, NEW ref
  PROVE  /\ NextVersion(g, ref) \in Nat \ {0} /\ NextVersion(g, ref) <= calls + 1
         /\ \A i \in Saved : mappings[i].group = g => mappings[i].version < NextVersion(g, ref)
<1>1. PICK S : S = {0} \cup Versions(g)
  OBVIOUS
<1>2. DOMAIN mappings = Saved
  BY DEF MappingTyped, Saved
<1>3. \A i \in Saved : mappings[i].group = g => mappings[i].version \in S
  BY <1>1, <1>2 DEF Versions, Of
<1>4. S \subseteq Nat /\ S # {} /\ \A v \in S : v <= calls
  BY <1>1, <1>2, MappingRowFacts DEF Versions, Of, MappingTyped
<1>5. PICK m : m = Max(S)
  OBVIOUS
<1>6. m \in S /\ \A v \in S : v <= m
  <2>1. \E x \in S : \A y \in S : y <= x
    BY <1>4, GreatestExists
  <2>2. \E x \in S : \A y \in S : x >= y
    BY <1>4, <2>1
  <2>3. m = CHOOSE x \in S : \A y \in S : x >= y
    BY <1>5 DEF Max
  <2>4. m \in S /\ \A y \in S : m >= y
    BY <2>2, <2>3
  <2> QED
    BY <1>4, <2>4
<1>7. NextVersion(g, ref) = 1 + m
  BY <1>1, <1>5 DEF NextVersion
<1> QED
  BY <1>3, <1>4, <1>6, <1>7, MappingRowFacts

-----------------------------------------------------------------------------
(* Every action preserves the invariant.                                   *)

(* A save begins.                                                          *)
LEMMA MappingBeginInv ==
  ASSUME MappingInv, NEW w \in Workers, NEW g \in Groups, NEW ref, NEW config \in 1..MaxCalls,
         Begin(w, Saving(g, ref, config)), UNCHANGED mappings
  PROVE  MappingInv'
<1>1. PICK r : r = Saving(g, ref, config)
  OBVIOUS
<1>2. /\ RequestInv' /\ calls \in Nat /\ calls' = calls + 1
      /\ request'[w] = r /\ \A v \in Workers \ {w} : request'[v] = request[v]
      /\ ~crossed' => ~crossed /\ \A v \in Workers \ {w} : request'[v] = None
  BY <1>1, BeginStep DEF MappingInv, RequestInv, RequestTypeOK
<1>3. /\ r.op = "save" /\ r.group = g /\ r.config = config
      /\ r.version \in Nat \ {0} /\ r.version <= calls'
      /\ \A i \in Saved : mappings[i].group = g => mappings[i].version < r.version
  BY <1>1, <1>2, NextVersionFacts DEF Saving, MappingInv
<1>4. MappingTyped'
  BY <1>2, MappingRowFacts DEF MappingInv, MappingTyped, Saved
<1>5. MappingHoldsTyped(w)' /\ HoldsLast(w)'
  BY <1>2, <1>3 DEF MappingHoldsTyped, HoldsLast, Saves, Doing, Saved
<1>6. ASSUME NEW v \in Workers \ {w} PROVE MappingHoldsTyped(v)'
  <2>1. MappingHoldsTyped(v) /\ request'[v] = request[v]
    BY <1>2 DEF MappingInv
  <2> QED
    BY <2>1, <1>2 DEF MappingHoldsTyped, Saves, Doing, Saved
<1>7. ~crossed' => \A v \in Workers \ {w} : HoldsLast(v)'
  BY <1>2 DEF HoldsLast, Saves, Doing
<1>8. SomeCurrent' /\ (~crossed' => \A i, j \in Saved' : InOrder(i, j)')
  BY <1>2 DEF MappingInv, SomeCurrent, InOrder, Saved
<1> QED
  BY <1>2, <1>4, <1>5, <1>6, <1>7, <1>8 DEF MappingInv

(* A save takes the rows of the group that it sees.                        *)
LEMMA ClearsInv ==
  ASSUME MappingInv, NEW w \in Workers, Clears(w)
  PROVE  MappingInv'
<1>1. PICK r : r = [op |-> "insert", group |-> request[w].group, version |-> request[w].version,
                    config |-> request[w].config, cleared |-> Of(request[w].group)]
  OBVIOUS
<1>2. request[w] # None /\ Saves(w) /\ GoesOn(w, r) /\ UNCHANGED mappings
  BY <1>1 DEF Clears, Doing, Saves
<1>3. /\ RequestInv' /\ UNCHANGED <<calls, crossed>>
      /\ request'[w] = r /\ \A v \in Workers \ {w} : request'[v] = request[v]
      /\ ~crossed => \A v \in Workers \ {w} : request'[v] = None
  BY <1>2, GoesOnStep DEF MappingInv
<1>4. /\ r.op = "insert" /\ r.group = request[w].group /\ r.version = request[w].version
      /\ r.config = request[w].config /\ r.cleared = {i \in Saved : mappings[i].group = r.group}
  <2>1. DOMAIN mappings = Saved
    BY DEF MappingInv, MappingTyped, Saved
  <2> QED
    BY <1>1, <2>1 DEF Of
<1>5. MappingHoldsTyped(w)'
  BY <1>2, <1>3, <1>4 DEF MappingInv, MappingHoldsTyped, Saves, Doing, Saved
<1>6. ~crossed => HoldsLast(w)'
  BY <1>2, <1>3, <1>4 DEF MappingInv, HoldsLast, Saves, Doing, Saved
<1>7. ASSUME NEW v \in Workers \ {w} PROVE MappingHoldsTyped(v)'
  <2>1. MappingHoldsTyped(v) /\ request'[v] = request[v]
    BY <1>3 DEF MappingInv
  <2> QED
    BY <2>1, <1>2, <1>3 DEF MappingHoldsTyped, Saves, Doing, Saved
<1>8. ~crossed => \A v \in Workers \ {w} : HoldsLast(v)'
  BY <1>3 DEF HoldsLast, Saves, Doing
<1>9. MappingTyped' /\ SomeCurrent' /\ (~crossed => \A i, j \in Saved' : InOrder(i, j)')
  BY <1>2, <1>3 DEF MappingInv, MappingTyped, SomeCurrent, InOrder, Saved
<1> QED
  BY <1>3, <1>5, <1>6, <1>7, <1>8, <1>9 DEF MappingInv

(* The rows after a save.                                                  *)
LEMMA RowsAfter ==
  ASSUME MappingInv, NEW w \in Workers, MappingCommit(w), NEW n, n = Len(mappings) + 1
  PROVE  /\ n \in Nat /\ mappings' \in Seq(SavedRow) /\ Saved' = Saved \cup {n}
         /\ \A i \in Saved : i < n /\ i \in Nat
         /\ \A i \in Saved : /\ mappings'[i].group = mappings[i].group
                            /\ mappings'[i].version = mappings[i].version
                            /\ mappings'[i].current = (mappings[i].current /\ i \notin request[w].cleared)
         /\ mappings'[n] = Inserted(request[w])
<1>1. PICK before :
        before = [i \in DOMAIN mappings |-> [mappings[i] EXCEPT !.current = @ /\ i \notin request[w].cleared]]
  OBVIOUS
<1>2. mappings \in Seq(SavedRow) /\ DOMAIN mappings = Saved /\ Len(mappings) \in Nat
  BY DEF MappingInv, MappingTyped, Saved
<1>3. \A i \in Saved : /\ before[i] \in SavedRow
                      /\ before[i].group = mappings[i].group
                      /\ before[i].version = mappings[i].version
                      /\ before[i].current = (mappings[i].current /\ i \notin request[w].cleared)
  <2> SUFFICES ASSUME NEW i \in Saved
               PROVE  /\ before[i] \in SavedRow
                      /\ before[i].group = mappings[i].group
                      /\ before[i].version = mappings[i].version
                      /\ before[i].current = (mappings[i].current /\ i \notin request[w].cleared)
    OBVIOUS
  <2>1. mappings[i] \in SavedRow
    BY MappingRowFacts DEF MappingInv
  <2>2. PICK c \in BOOLEAN : c = (mappings[i].current /\ i \notin request[w].cleared)
    BY <2>1 DEF SavedRow
  <2>3. before[i] = [mappings[i] EXCEPT !.current = c]
    BY <1>1, <1>2, <2>2
  <2>4. [mappings[i] EXCEPT !.current = c] \in SavedRow
    BY <2>1 DEF SavedRow
  <2>5. /\ [mappings[i] EXCEPT !.current = c].group = mappings[i].group
        /\ [mappings[i] EXCEPT !.current = c].version = mappings[i].version
        /\ [mappings[i] EXCEPT !.current = c].current = c
    BY <2>1 DEF SavedRow
  <2> QED
    BY <2>2, <2>3, <2>4, <2>5
<1>4. before \in Seq(SavedRow) /\ Len(before) = Len(mappings)
  <2>1. before \in [1..Len(mappings) -> SavedRow]
    BY <1>1, <1>2, <1>3 DEF Saved
  <2> QED
    BY <2>1, <1>2, IsASeq, LenProperties
<1>5. Inserted(request[w]) \in SavedRow
  <2>1. MappingHoldsTyped(w) /\ Saves(w) /\ calls \in Nat /\ calls <= MaxCalls
    BY DEF MappingInv, MappingCommit, Saves, RequestInv, RequestTypeOK
  <2>2. /\ request[w].group \in Groups /\ request[w].config \in 1..MaxCalls
        /\ request[w].version \in 1..MaxCalls
    BY <2>1, RequestAssumption DEF MappingHoldsTyped
  <2> QED
    BY <2>2 DEF Inserted, SavedRow
<1>6. mappings' = Append(before, Inserted(request[w]))
  BY <1>1 DEF MappingCommit
<1>7. PICK p \in SavedRow : p = Inserted(request[w])
  BY <1>5
<1>8. /\ Append(before, p) \in Seq(SavedRow) /\ Len(Append(before, p)) = n
      /\ \A i \in 1..Len(before) : Append(before, p)[i] = before[i]
      /\ Append(before, p)[n] = p
  BY <1>2, <1>4, AppendProperties
<1>9. Saved' = 1..n
  BY <1>6, <1>7, <1>8 DEF Saved
<1> QED
  BY <1>2, <1>3, <1>4, <1>6, <1>7, <1>8, <1>9 DEF Saved

(* The commit of a save.                                                   *)
LEMMA MappingCommitInv ==
  ASSUME MappingInv, NEW w \in Workers, MappingCommit(w)
  PROVE  MappingInv'
<1>1. PICK n : n = Len(mappings) + 1
  OBVIOUS
<1>2. /\ n \in Nat /\ mappings' \in Seq(SavedRow) /\ Saved' = Saved \cup {n}
      /\ \A i \in Saved : i < n /\ i \in Nat
      /\ \A i \in Saved : /\ mappings'[i].group = mappings[i].group
                         /\ mappings'[i].version = mappings[i].version
                         /\ mappings'[i].current = (mappings[i].current /\ i \notin request[w].cleared)
      /\ mappings'[n] = Inserted(request[w])
  BY <1>1, RowsAfter
<1>3. request[w] # None /\ Doing(w, "insert") /\ Saves(w) /\ Ends(w)
  BY DEF MappingCommit, Doing, Saves
<1>4. /\ RequestInv' /\ UNCHANGED <<calls, crossed>>
      /\ request'[w] = None /\ \A v \in Workers \ {w} : request'[v] = request[v]
      /\ ~crossed => \A v \in Workers \ {w} : request'[v] = None
  BY <1>3, GoesOnStep DEF Ends, MappingInv
<1>5. /\ request[w].group \in Groups /\ request[w].version \in Nat \ {0} /\ request[w].version <= calls
      /\ \A i \in request[w].cleared : i \in Saved /\ mappings[i].group = request[w].group
  BY <1>3 DEF MappingInv, MappingHoldsTyped
<1>6. /\ mappings'[n].group = request[w].group /\ mappings'[n].version = request[w].version
      /\ mappings'[n].current = TRUE
  BY <1>2 DEF Inserted
<1>7. MappingTyped'
  BY <1>2, <1>4, <1>5, <1>6 DEF MappingInv, MappingTyped
<1>8. ASSUME NEW v \in Workers PROVE MappingHoldsTyped(v)'
  <2>1. MappingHoldsTyped(v)
    BY DEF MappingInv
  <2>2. CASE v = w
    BY <2>2, <1>4 DEF MappingHoldsTyped, Saves, Doing
  <2>3. CASE v # w
    <3>1. request'[v] = request[v]
      BY <2>3, <1>4
    <3> QED
      BY <2>1, <3>1, <1>2, <1>4 DEF MappingHoldsTyped, Saves, Doing
  <2> QED
    BY <2>2, <2>3
<1>9. SomeCurrent'
  <2> SUFFICES ASSUME NEW g \in Groups, NEW k \in Saved', mappings'[k].group = g
               PROVE  \E i \in Saved' : mappings'[i].group = g /\ mappings'[i].current
    BY DEF SomeCurrent
  <2>1. CASE g = request[w].group
    BY <2>1, <1>2, <1>6
  <2>2. CASE g # request[w].group
    <3>1. k \in Saved /\ mappings[k].group = g
      BY <2>2, <1>2, <1>6
    <3>2. PICK i \in Saved : mappings[i].group = g /\ mappings[i].current
      BY <3>1 DEF MappingInv, SomeCurrent
    <3>3. i \notin request[w].cleared
      BY <3>2, <2>2, <1>5
    <3> QED
      BY <3>2, <3>3, <1>2
  <2> QED
    BY <2>1, <2>2
<1>10. ~crossed => \A v \in Workers : HoldsLast(v)'
  BY <1>4 DEF HoldsLast, Saves, Doing
<1>11. ASSUME ~crossed, NEW i \in Saved', NEW j \in Saved' PROVE InOrder(i, j)'
  <2> SUFFICES ASSUME i < j, mappings'[i].group = mappings'[j].group
               PROVE  mappings'[i].version < mappings'[j].version /\ ~mappings'[i].current
    BY DEF InOrder
  <2>1. i \in Saved
    BY <1>2
  <2>2. CASE j \in Saved
    BY <2>1, <2>2, <1>2, <1>11 DEF MappingInv, InOrder
  <2>3. CASE j = n
    <3>1. mappings[i].group = request[w].group
      BY <2>1, <2>3, <1>2, <1>6
    <3>2. mappings[i].version < request[w].version /\ i \in request[w].cleared
      BY <3>1, <2>1, <1>3, <1>11 DEF MappingInv, HoldsLast
    <3> QED
      BY <3>2, <2>1, <2>3, <1>2, <1>6
  <2> QED
    BY <1>2, <2>2, <2>3
<1> QED
  BY <1>4, <1>7, <1>8, <1>9, <1>10, <1>11 DEF MappingInv

(* Every step preserves the invariant.                                     *)
LEMMA MappingNextInv == MappingInv /\ [MappingNext]_<<requestVars, mappings>> => MappingInv'
<1> SUFFICES ASSUME MappingInv, [MappingNext]_<<requestVars, mappings>> PROVE MappingInv'
  OBVIOUS
<1>1. calls \in Nat /\ DOMAIN mappings = Saved
  BY DEF MappingInv, RequestInv, RequestTypeOK, MappingTyped, Saved
<1>2. ASSUME NEW w \in Workers, NEW g \in Groups, MappingCreateBegin(w, g) PROVE MappingInv'
  <2>1. calls + 1 \in 1..MaxCalls
    BY <1>1, <1>2, RequestAssumption DEF MappingCreateBegin, Begin
  <2> QED
    BY <1>2, <2>1, MappingBeginInv DEF MappingCreateBegin
<1>3. ASSUME NEW w \in Workers, NEW i \in Saved, MappingUpdateBegin(w, i) PROVE MappingInv'
  <2>1. mappings[i].group \in Groups /\ mappings[i].config \in 1..MaxCalls
    BY MappingRowFacts DEF MappingInv
  <2>2. PICK config \in {mappings[i].config, calls + 1} : Begin(w, Saving(mappings[i].group, i, config))
    BY <1>3 DEF MappingUpdateBegin
  <2>3. UNCHANGED mappings /\ config \in 1..MaxCalls
    BY <1>1, <1>3, <2>1, <2>2, RequestAssumption DEF MappingUpdateBegin, Begin
  <2> QED
    BY <2>1, <2>2, <2>3, MappingBeginInv
<1>4. ASSUME NEW w \in Workers, NEW i \in Saved, NEW version, RollbackBegin(w, i, version) PROVE MappingInv'
  <2>1. PICK j \in Of(mappings[i].group) : Begin(w, Saving(mappings[i].group, i, mappings[j].config))
    BY <1>4 DEF RollbackBegin
  <2>2. j \in Saved
    BY <1>1 DEF Of
  <2>3. mappings[i].group \in Groups /\ mappings[j].config \in 1..MaxCalls
    BY <2>2, MappingRowFacts DEF MappingInv
  <2>4. UNCHANGED mappings
    BY <1>4 DEF RollbackBegin
  <2> QED
    BY <2>1, <2>3, <2>4, MappingBeginInv
<1>5. ASSUME UNCHANGED <<requestVars, mappings>> PROVE MappingInv'
  <2>1. RequestInv' /\ UNCHANGED <<request, crossed, calls>>
    BY <1>5, StatementStep DEF MappingInv, requestVars
  <2> QED
    BY <1>5, <2>1 DEF MappingInv, MappingTyped, MappingHoldsTyped, HoldsLast, Saves, Doing, SomeCurrent, InOrder,
              Saved
<1> QED
  BY <1>1, <1>2, <1>3, <1>4, <1>5, ClearsInv, MappingCommitInv DEF MappingNext

-----------------------------------------------------------------------------
(* The mapping that ingestion takes.                                       *)

(* There is one, of the current rows that with the highest version.        *)
LEMMA SomeResolved == MappingInv => AlwaysResolvable
<1> SUFFICES ASSUME MappingInv, NEW g \in Groups, Of(g) # {} PROVE Resolved(g) # {}
  BY DEF AlwaysResolvable
<1>1. Of(g) = {i \in Saved : mappings[i].group = g}
  BY DEF Of, MappingInv, MappingTyped, Saved
<1>2. PICK now : now = {i \in Of(g) : mappings[i].current}
  OBVIOUS
<1>3. now # {} /\ now \subseteq Saved
  BY <1>1, <1>2 DEF MappingInv, SomeCurrent
<1>4. PICK S : S = {mappings[i].version : i \in now}
  OBVIOUS
<1>5. S \subseteq Nat /\ S # {} /\ \A v \in S : v <= calls
  BY <1>3, <1>4, MappingRowFacts DEF MappingInv, MappingTyped
<1>6. PICK v \in S : \A u \in S : u <= v
  <2>1. calls \in Nat
    BY DEF MappingInv, RequestInv, RequestTypeOK
  <2> QED
    BY <1>5, <2>1, GreatestExists
<1>7. PICK i \in now : mappings[i].version = v
  BY <1>4, <1>6
<1>8. Resolved(g) = {k \in now : \A j \in now : mappings[j].version <= mappings[k].version}
  BY <1>2 DEF Resolved
<1> QED
  BY <1>4, <1>6, <1>7, <1>8

(* Without overlap it is the last, and the versions tell the rows apart.   *)
LEMMA LastResolved == MappingInv => LastSaveUsed
<1> SUFFICES ASSUME MappingInv, ~crossed, NEW g \in Groups, Of(g) # {}
             PROVE  Resolved(g) = {Max(Of(g))} /\ Cardinality(Versions(g)) = Cardinality(Of(g))
  BY DEF LastSaveUsed
<1>1. PICK own : own = Of(g)
  OBVIOUS
<1>2. own = {i \in Saved : mappings[i].group = g}
  BY <1>1 DEF Of, MappingInv, MappingTyped, Saved
<1>3. own \subseteq Nat /\ own # {} /\ \A i \in own : i <= Len(mappings) /\ mappings[i].version \in Nat
  BY <1>1, <1>2, MappingRowFacts DEF Saved, MappingInv
<1>4. PICK m : m = Max(own)
  OBVIOUS
<1>5. m \in own /\ \A i \in own : i <= m
  <2>1. Len(mappings) \in Nat
    BY DEF MappingInv, MappingTyped
  <2>2. \E x \in own : \A y \in own : y <= x
    BY <1>3, <2>1, GreatestExists
  <2>3. \E x \in own : \A y \in own : x >= y
    BY <1>3, <2>2
  <2>4. m = CHOOSE x \in own : \A y \in own : x >= y
    BY <1>4 DEF Max
  <2>5. m \in own /\ \A y \in own : m >= y
    BY <2>3, <2>4
  <2> QED
    BY <1>3, <2>5
<1>6. \A i, j \in own : i < j => mappings[i].version < mappings[j].version /\ ~mappings[i].current
  BY <1>2 DEF MappingInv, InOrder
<1>7. \A i \in own : i # m => ~mappings[i].current
  BY <1>3, <1>5, <1>6
<1>8. mappings[m].current
  <2>1. \E i \in own : mappings[i].current
    BY <1>2, <1>3 DEF MappingInv, SomeCurrent
  <2> QED
    BY <2>1, <1>7
<1>9. Resolved(g) = {m}
  <2>1. {i \in own : mappings[i].current} = {m}
    BY <1>5, <1>7, <1>8
  <2>2. Resolved(g) = {k \in {m} : \A j \in {m} : mappings[j].version <= mappings[k].version}
    BY <1>1, <2>1 DEF Resolved
  <2> QED
    BY <2>2, <1>3, <1>5
<1>10. Cardinality(Versions(g)) = Cardinality(own)
  <2>1. Versions(g) = {mappings[i].version : i \in own}
    BY <1>1 DEF Versions
  <2>2. PICK f : f = [i \in own |-> mappings[i].version]
    OBVIOUS
  <2>3. f \in [own -> Versions(g)] /\ \A v \in Versions(g) : \E i \in own : f[i] = v
    BY <2>1, <2>2
  <2>4. \A i, j \in own : f[i] = f[j] => i = j
    BY <2>2, <1>3, <1>6
  <2>5. f \in Bijection(own, Versions(g))
    BY <2>3, <2>4 DEF Bijection, Injection, Surjection, IsInjective
  <2>6. IsFiniteSet(own)
    <3>1. IsFiniteSet(Saved)
      BY FS_Interval DEF Saved, MappingInv, MappingTyped
    <3> QED
      BY <3>1, <1>2, FS_Subset
  <2> QED
    BY <2>5, <2>6, FS_Bijection DEF ExistsBijection
<1> QED
  BY <1>1, <1>4, <1>9, <1>10

(* Ingestion finds a mapping once one was saved, overlapping saves         *)
(* included, and without overlap it is what was saved last.                *)
THEOREM MappingsAreSound == MappingSpec => []MappingsSound
<1>1. RequestInit /\ MappingInit => MappingInv
  BY MappingInitInv
<1>2. MappingInv /\ [MappingNext]_<<requestVars, mappings>> => MappingInv'
  BY MappingNextInv
<1>3. MappingInv => MappingsSound
  BY SomeResolved, LastResolved DEF MappingsSound, MappingInv, MappingTyped, MappingTypeOK, SavedRow
<1> QED
  BY <1>1, <1>2, <1>3, PTL DEF MappingSpec

-----------------------------------------------------------------------------
(***************************************************************************)
(* Proof that a validation comes to one end, for any number of processes,  *)
(* requests, rows and attempts.  The invariant counts the tasks of a row   *)
(* without a counter: a row that failed and has a task left, or two tasks  *)
(* at once, was given two.                                                 *)
(***************************************************************************)

Statuses == Unfinished \cup {"COMPLETED", "FAILED"}
EntryOf == [status : Statuses, by : {"post", "retry"}, failed : BOOLEAN]
Entries == 1..Len(validations)
Slots == 1..MaxValidations

ValidationTyped ==
  /\ validations \in Seq(EntryOf) /\ Len(validations) <= MaxValidations
  /\ aged \in Nat /\ aged <= Len(validations)
  /\ added \in [Slots -> Nat] /\ assigned \in [Slots -> Nat]
  /\ DOMAIN asking = Workers
  /\ \A w \in Workers : asking[w] = None \/ asking[w] \in [row : Entries, attempt : 1..Attempts]

Asks(w, i) == asking[w] # None /\ asking[w].row = i
TaskLeft(i) == added[i] > 0 \/ \E w \in Workers : Asks(w, i)

(* How many tasks a row was given at least.                                *)
Counted(i) ==
  /\ added[i] <= assigned[i]
  /\ \A w \in Workers : Asks(w, i) => added[i] + 1 <= assigned[i]
  /\ \A v, w \in Workers : v # w /\ Asks(v, i) /\ Asks(w, i) => assigned[i] > 1

(* What its status tells of the tasks of a row.                            *)
ValidationRowSound(i) ==
  /\ validations[i].status \in Unfinished => i \in stranded \/ TaskLeft(i)
  /\ validations[i].status = "FAILED" => validations[i].failed
  /\ validations[i].failed => assigned[i] > 0
  /\ validations[i].failed /\ (TaskLeft(i) \/ validations[i].status = "COMPLETED") => assigned[i] > 1

(* A POST that found nothing to give again, and is alone.                  *)
PostSound(w) ==
  ~crossed /\ Doing(w, "post") =>
    \A i \in Entries : aged < i /\ Reusable(validations[i].status) => assigned[i] > 1

(* OneRequestPerWindow, for two rows.                                      *)
PairSound(i, j) ==
  aged < i /\ i < j /\ validations[j].by = "post" /\ Reusable(validations[i].status) => assigned[i] > 1

ValidationInv ==
  /\ RequestInv
  /\ ValidationTyped
  /\ \A i \in Slots : Counted(i)
  /\ \A i \in Entries : ValidationRowSound(i)
  /\ \A w \in Workers : PostSound(w)
  /\ ~crossed => \A i, j \in Entries : PairSound(i, j)

(* The initial state satisfies the invariant.                              *)
LEMMA ValidationInitInv == RequestInit /\ ValidationInit => ValidationInv
<1> SUFFICES ASSUME RequestInit, ValidationInit PROVE ValidationInv
  OBVIOUS
<1> USE ValidationAssumption DEF ValidationInit
<1>1. RequestInv /\ \A w \in Workers : request[w] = None
  BY RequestsInit
<1>2. Entries = {}
  BY DEF Entries
<1>3. ValidationTyped
  <2>1. validations \in Seq(EntryOf) /\ Len(validations) = 0
    BY EmptySeq
  <2> QED
    BY <2>1 DEF ValidationTyped, Slots
<1>4. \A i \in Slots : Counted(i)
  BY DEF Counted, Asks, Slots
<1>5. \A w \in Workers : PostSound(w)
  BY <1>1 DEF PostSound, Doing
<1> QED
  BY <1>1, <1>2, <1>3, <1>4, <1>5 DEF ValidationInv

-----------------------------------------------------------------------------
(* What the actions do to rows and tasks.                                  *)

(* A row gets another status and flag.                                     *)
LEMMA RowWritten ==
  ASSUME ValidationTyped, NEW i \in Entries, NEW s \in Statuses, NEW f \in BOOLEAN,
         validations' = [validations EXCEPT ![i].status = s, ![i].failed = f]
  PROVE  /\ validations' \in Seq(EntryOf) /\ Len(validations') = Len(validations) /\ Entries' = Entries
         /\ \A k \in Entries : k # i => validations'[k] = validations[k]
         /\ validations'[i].status = s /\ validations'[i].failed = f /\ validations'[i].by = validations[i].by
<1> DEFINE p == [validations[i] EXCEPT !.status = s, !.failed = f]
<1>1. validations[i] \in EntryOf /\ validations \in Seq(EntryOf) /\ i \in 1..Len(validations)
  BY ElementOfSeq DEF ValidationTyped, Entries
<1>2. p \in EntryOf /\ p.status = s /\ p.failed = f /\ p.by = validations[i].by
  BY <1>1 DEF EntryOf
<1>3. validations' = [validations EXCEPT ![i] = p]
  BY <1>1 DEF EntryOf
<1> HIDE DEF p
<1>4. /\ [validations EXCEPT ![i] = p] \in Seq(EntryOf)
      /\ Len([validations EXCEPT ![i] = p]) = Len(validations)
      /\ \A k \in 1..Len(validations) : [validations EXCEPT ![i] = p][k] = IF k = i THEN p ELSE validations[k]
  BY <1>1, <1>2, ExceptSeq
<1> QED
  BY <1>1, <1>2, <1>3, <1>4 DEF Entries

(* A row gets another status.                                              *)
LEMMA StatusWritten ==
  ASSUME ValidationTyped, NEW i \in Entries, NEW s \in Statuses,
         validations' = [validations EXCEPT ![i].status = s]
  PROVE  /\ validations' \in Seq(EntryOf) /\ Len(validations') = Len(validations) /\ Entries' = Entries
         /\ \A k \in Entries : k # i => validations'[k] = validations[k]
         /\ validations'[i].status = s /\ validations'[i].failed = validations[i].failed
         /\ validations'[i].by = validations[i].by
<1>1. validations[i] \in EntryOf /\ DOMAIN validations = Entries
  BY ElementOfSeq DEF ValidationTyped, Entries
<1>2. validations' = [validations EXCEPT ![i].status = s, ![i].failed = validations[i].failed]
  BY <1>1 DEF EntryOf
<1>3. validations[i].failed \in BOOLEAN
  BY <1>1 DEF EntryOf
<1> QED
  BY <1>2, <1>3, RowWritten

(* A row is given a task.                                                  *)
LEMMA TaskAdded ==
  ASSUME ValidationTyped, NEW i \in Slots, AddTask(i)
  PROVE  /\ added' \in [Slots -> Nat] /\ assigned' \in [Slots -> Nat]
         /\ \A k \in Slots : added'[k] = IF k = i THEN added[k] + 1 ELSE added[k]
         /\ \A k \in Slots : assigned'[k] = IF k = i THEN assigned[k] + 1 ELSE assigned[k]
         /\ stranded' = stranded \ {i}
<1> DEFINE Given(f) == [f EXCEPT ![i] = @ + 1]
<1>1. ASSUME NEW f \in [Slots -> Nat]
      PROVE  /\ Given(f) \in [Slots -> Nat]
             /\ \A k \in Slots : Given(f)[k] = IF k = i THEN f[k] + 1 ELSE f[k]
  OBVIOUS
<1> QED
  BY <1>1 DEF ValidationTyped, AddTask

(* Entries are slots, typed.                                                  *)
LEMMA ValidationRowFacts ==
  ASSUME ValidationTyped, NEW i \in Entries
  PROVE  /\ i \in Slots /\ i \in Nat /\ validations[i] \in EntryOf
         /\ validations[i].status \in Statuses /\ validations[i].failed \in BOOLEAN
         /\ added[i] \in Nat /\ assigned[i] \in Nat
<1>1. validations[i] \in EntryOf
  BY ElementOfSeq DEF ValidationTyped, Entries
<1>2. i \in Slots
  BY ValidationAssumption DEF ValidationTyped, Entries, Slots
<1> QED
  BY <1>1, <1>2 DEF ValidationTyped, EntryOf, Slots

-----------------------------------------------------------------------------
(* Every action preserves the invariant.                                   *)

(* An open row is given one more task.                                     *)
LEMMA MoreTasks ==
  ASSUME ValidationInv, NEW i \in Entries, AddTask(i), RequestInv',
         UNCHANGED <<request, crossed, validations, aged, asking>>
  PROVE  ValidationInv'
<1>1. /\ added' \in [Slots -> Nat] /\ assigned' \in [Slots -> Nat]
      /\ \A k \in Slots : added'[k] = IF k = i THEN added[k] + 1 ELSE added[k]
      /\ \A k \in Slots : assigned'[k] = IF k = i THEN assigned[k] + 1 ELSE assigned[k]
      /\ stranded' = stranded \ {i}
  BY TaskAdded, ValidationRowFacts DEF ValidationInv
<1>2. ValidationTyped' /\ Entries' = Entries
  BY <1>1 DEF ValidationInv, ValidationTyped, Entries
<1>3. ASSUME NEW k \in Slots PROVE Counted(k)'
  <2>1. added[k] \in Nat /\ assigned[k] \in Nat /\ Counted(k)
    BY DEF ValidationInv, ValidationTyped
  <2>2. \/ added'[k] = added[k] /\ assigned'[k] = assigned[k]
        \/ added'[k] = added[k] + 1 /\ assigned'[k] = assigned[k] + 1
    BY <1>1
  <2>3. asking' = asking
    OBVIOUS
  <2> QED
    BY <2>1, <2>2, <2>3 DEF Counted, Asks
<1>4. \A k \in Entries : ValidationRowSound(k)'
  BY <1>1, ValidationRowFacts DEF ValidationInv, ValidationRowSound, TaskLeft, Asks
<1>5. \A w \in Workers : PostSound(w)'
  BY <1>1, <1>2, ValidationRowFacts DEF ValidationInv, PostSound, Doing
<1>6. ~crossed => \A k, j \in Entries : PairSound(k, j)'
  BY <1>1, ValidationRowFacts DEF ValidationInv, PairSound
<1> QED
  BY <1>2, <1>3, <1>4, <1>5, <1>6 DEF ValidationInv

(* A request that found one to give again.                                 *)
LEMMA PostReusedInv == ValidationInv /\ PostReused => ValidationInv'
<1> SUFFICES ASSUME ValidationInv, PostReused PROVE ValidationInv'
  OBVIOUS
<1>1. RequestInv' /\ UNCHANGED <<request, crossed>>
  BY StatementStep DEF PostReused, ValidationInv
<1> DEFINE i == CHOOSE i \in Existing : \A j \in Existing : j <= i
<1>2. Existing \subseteq Entries /\ Existing # {}
  BY DEF PostReused, Existing, Entries, ValidationInv, ValidationTyped
<1>3. i \in Entries
  <2>1. Existing \subseteq Nat /\ \A x \in Existing : x <= Len(validations)
    BY <1>2 DEF Entries
  <2>2. Len(validations) \in Nat
    BY DEF ValidationInv, ValidationTyped
  <2>3. \E x \in Existing : \A y \in Existing : y <= x
    BY <1>2, <2>1, <2>2, GreatestExists
  <2> QED
    BY <1>2, <2>3
<1>4. CASE AddTask(i)
  BY <1>1, <1>3, <1>4, MoreTasks DEF PostReused
<1>5. CASE UNCHANGED <<added, assigned, stranded>>
  BY <1>1, <1>5 DEF PostReused, ValidationInv, ValidationTyped, Entries, Counted,
                 ValidationRowSound, TaskLeft, Asks, PostSound, Doing, PairSound
<1> QED
  BY <1>4, <1>5 DEF PostReused

(* A request that stores a row later.                                      *)
LEMMA ValidationBeginInv ==
  ASSUME ValidationInv, NEW w \in Workers, NEW r, Begin(w, r), UNCHANGED validationVars,
         r.op = "post" => Existing = {}
  PROVE  ValidationInv'
<1>1. /\ RequestInv'
      /\ request'[w] = r
      /\ ~crossed' => ~crossed /\ \A v \in Workers \ {w} : request'[v] = None
  BY BeginStep DEF ValidationInv
<1>2. ValidationTyped' /\ Entries' = Entries
  BY DEF validationVars, ValidationInv, ValidationTyped, Entries
<1>3. /\ \A k \in Slots : Counted(k)'
      /\ \A k \in Entries : ValidationRowSound(k)'
      /\ ~crossed' => \A k, j \in Entries : PairSound(k, j)'
  BY <1>1 DEF validationVars, ValidationInv, Counted, ValidationRowSound, TaskLeft, Asks, PairSound
<1>4. ASSUME NEW v \in Workers PROVE PostSound(v)'
  <2> SUFFICES ASSUME ~crossed', Doing(v, "post")', NEW k \in Entries', aged' < k, Reusable(validations[k].status)'
               PROVE  FALSE
    BY DEF PostSound
  <2>1. v = w /\ r.op = "post"
    BY <1>1 DEF Doing
  <2>2. k \in Existing
    BY <1>2 DEF Existing, validationVars, Entries, ValidationInv, ValidationTyped
  <2> QED
    BY <2>1, <2>2
<1> QED
  BY <1>1, <1>2, <1>3, <1>4 DEF ValidationInv

(* The row is stored and its task added.                                   *)
LEMMA StoreCommitInv ==
  ASSUME ValidationInv, NEW w \in Workers, StoreCommit(w)
  PROVE  ValidationInv'
<1> DEFINE n == Len(validations) + 1
<1> DEFINE p == [status |-> "PENDING", by |-> request[w].op, failed |-> FALSE]
<1>1. /\ RequestInv' /\ UNCHANGED crossed
      /\ request'[w] = None
      /\ ~crossed => \A v \in Workers \ {w} : request'[v] = None
  BY GoesOnStep DEF StoreCommit, Ends, Doing, ValidationInv
<1>2. p \in EntryOf /\ p.status = "PENDING" /\ p.failed = FALSE /\ p.by = request[w].op
  BY DEF StoreCommit, Doing, EntryOf, Statuses, Unfinished
<1>3. validations \in Seq(EntryOf) /\ Len(validations) \in Nat /\ Len(validations) < MaxValidations
  BY DEF StoreCommit, ValidationInv, ValidationTyped
<1>4. /\ validations' \in Seq(EntryOf) /\ Len(validations') = n
      /\ \A k \in Entries : validations'[k] = validations[k]
      /\ validations'[n] = p
  <2> HIDE DEF p
  <2>1. validations' = Append(validations, p)
    BY DEF StoreCommit, p
  <2> QED
    BY <1>2, <1>3, <2>1, AppendProperties DEF Entries
<1> HIDE DEF p
<1>5. n \in Slots /\ n \notin Entries /\ Entries' = Entries \cup {n} /\ \A k \in Entries : k < n
  BY <1>3, <1>4, ValidationAssumption DEF Slots, Entries
<1>6. /\ added' \in [Slots -> Nat] /\ assigned' \in [Slots -> Nat]
      /\ \A k \in Slots : added'[k] = IF k = n THEN added[k] + 1 ELSE added[k]
      /\ \A k \in Slots : assigned'[k] = IF k = n THEN assigned[k] + 1 ELSE assigned[k]
      /\ stranded' = stranded \ {n}
  BY <1>5, TaskAdded DEF ValidationInv, StoreCommit
<1>7. aged' = aged /\ asking' = asking
  BY DEF StoreCommit
<1>8. ValidationTyped'
  <2>1. \A v \in Workers : asking[v] = None \/ asking[v] \in [row : Entries', attempt : 1..Attempts]
    BY <1>5 DEF ValidationInv, ValidationTyped
  <2>2. Len(validations') <= MaxValidations /\ aged <= Len(validations')
    BY <1>3, <1>4, ValidationAssumption DEF ValidationInv, ValidationTyped
  <2> QED
    BY <1>4, <1>6, <1>7, <2>1, <2>2 DEF ValidationInv, ValidationTyped, Entries
<1>9. ASSUME NEW k \in Slots PROVE Counted(k)'
  <2>1. added[k] \in Nat /\ assigned[k] \in Nat /\ Counted(k)
    BY DEF ValidationInv, ValidationTyped
  <2>2. \/ added'[k] = added[k] /\ assigned'[k] = assigned[k]
        \/ added'[k] = added[k] + 1 /\ assigned'[k] = assigned[k] + 1
    BY <1>6
  <2>3. asking' = asking
    BY <1>7
  <2> QED
    BY <2>1, <2>2, <2>3 DEF Counted, Asks
<1>10. \A k \in Entries' : ValidationRowSound(k)'
  <2>1. ASSUME NEW k \in Entries PROVE ValidationRowSound(k)'
    <3>1. k # n /\ k \in Slots /\ validations'[k] = validations[k]
      BY <1>4, <1>5, ValidationRowFacts DEF ValidationInv
    <3> QED
      BY <3>1, <1>6, <1>7 DEF ValidationInv, ValidationRowSound, TaskLeft, Asks
  <2>2. ASSUME NEW k \in {n} PROVE ValidationRowSound(k)'
    <3>1. added'[n] > 0 /\ k = n
      BY <1>5, <1>6, <2>2 DEF ValidationInv, ValidationTyped
    <3> QED
      BY <3>1, <1>2, <1>4 DEF ValidationRowSound, TaskLeft
  <2> QED
    BY <1>5, <2>1, <2>2
<1>11. \A v \in Workers : PostSound(v)'
  BY <1>1 DEF PostSound, Doing
<1>12. ASSUME ~crossed', NEW k \in Entries', NEW j \in Entries' PROVE PairSound(k, j)'
  <2> SUFFICES ASSUME aged < k, k < j, validations'[j].by = "post", Reusable(validations'[k].status)
               PROVE  assigned'[k] > 1
    BY <1>7 DEF PairSound
  <2>1. k \in Entries /\ k # n
    BY <1>4, <1>5 DEF Entries, ValidationInv, ValidationTyped
  <2>2. validations'[k] = validations[k] /\ assigned'[k] = assigned[k]
    BY <2>1, <1>4, <1>6, ValidationRowFacts DEF ValidationInv
  <2>3. CASE j \in Entries
    BY <2>1, <2>2, <2>3, <1>1, <1>4, <1>12 DEF ValidationInv, PairSound
  <2>4. CASE j = n
    <3>1. Doing(w, "post")
      BY <2>4, <1>2, <1>4 DEF StoreCommit, Doing
    <3> QED
      BY <3>1, <2>1, <2>2, <1>1, <1>12 DEF ValidationInv, PostSound
  <2> QED
    BY <1>5, <2>3, <2>4
<1> QED
  BY <1>1, <1>8, <1>9, <1>10, <1>11, <1>12 DEF ValidationInv

(* A task of a row starts: it is no longer one that waits.                 *)
LEMMA TaskStartsInv ==
  ASSUME ValidationInv, NEW w \in Workers, NEW i \in Entries, TaskStarts(w, i)
  PROVE  ValidationInv'
<1>1. RequestInv' /\ UNCHANGED <<request, crossed>>
  BY StatementStep DEF ValidationInv, TaskStarts, requestVars
<1>2. /\ validations' \in Seq(EntryOf) /\ Len(validations') = Len(validations) /\ Entries' = Entries
      /\ \A k \in Entries : k # i => validations'[k] = validations[k]
      /\ validations'[i].status = "IN_PROGRESS" /\ validations'[i].failed = validations[i].failed
      /\ validations'[i].by = validations[i].by
  BY StatusWritten DEF ValidationInv, TaskStarts, Statuses, Unfinished
<1>3. /\ i \in Slots /\ i \in Nat /\ validations[i].status \in Statuses
      /\ added[i] \in Nat /\ assigned[i] \in Nat /\ added[i] > 0
  BY ValidationRowFacts DEF ValidationInv, TaskStarts
<1>4. /\ added' \in [Slots -> Nat] /\ added'[i] = added[i] - 1
      /\ \A k \in Slots : k # i => added'[k] = added[k]
  <2>1. added' = [added EXCEPT ![i] = added[i] - 1] /\ added[i] - 1 \in Nat
    BY <1>3 DEF TaskStarts
  <2> QED
    BY <1>3, <2>1 DEF ValidationInv, ValidationTyped
<1>5. UNCHANGED <<aged, assigned, stranded>> /\ asking[w] = None
  BY DEF TaskStarts
<1>6. /\ DOMAIN asking' = Workers
      /\ asking'[w] = [row |-> i, attempt |-> 1]
      /\ \A v \in Workers \ {w} : asking'[v] = asking[v]
  BY DEF TaskStarts, ValidationInv, ValidationTyped
<1>7. asking'[w] \in [row : Entries, attempt : 1..Attempts] /\ asking'[w] # None /\ asking'[w].row = i
  <2>1. asking'[w] \in [row : Slots, attempt : 1..Attempts]
    BY <1>3, <1>6, ValidationAssumption
  <2> QED
    BY <1>6, <2>1, ValidationAssumption DEF Slots
<1>8. ValidationTyped'
  <2>1. \A v \in Workers : asking'[v] = None \/ asking'[v] \in [row : Entries, attempt : 1..Attempts]
    BY <1>6, <1>7 DEF ValidationInv, ValidationTyped
  <2> QED
    BY <1>2, <1>4, <1>5, <1>6, <2>1 DEF ValidationInv, ValidationTyped
<1>9. ASSUME NEW k \in Slots PROVE Counted(k)'
  <2>1. added[k] \in Nat /\ assigned[k] \in Nat /\ Counted(k)
    BY DEF ValidationInv, ValidationTyped
  <2>2. \A v \in Workers : Asks(v, k)' <=> Asks(v, k) \/ (v = w /\ k = i)
    BY <1>5, <1>6, <1>7 DEF Asks
  <2>3. CASE k = i
    BY <1>3, <1>4, <1>5, <2>1, <2>2, <2>3 DEF Counted
  <2>4. CASE k # i
    BY <1>4, <1>5, <2>1, <2>2, <2>4 DEF Counted
  <2> QED
    BY <2>3, <2>4
<1>10. validations[i].failed => assigned[i] > 1
  BY <1>3 DEF ValidationInv, ValidationRowSound, TaskLeft
<1>11. ASSUME NEW k \in Entries PROVE ValidationRowSound(k)'
  <2>1. CASE k = i
    <3>1. TaskLeft(k)'
      BY <1>7, <2>1 DEF TaskLeft, Asks
    <3> QED
      BY <3>1, <2>1, <1>2, <1>3, <1>5, <1>10 DEF ValidationRowSound
  <2>2. CASE k # i
    <3>1. TaskLeft(k)' <=> TaskLeft(k)
      BY <2>2, <1>4, <1>5, <1>6, <1>7, ValidationRowFacts DEF TaskLeft, Asks, ValidationInv
    <3>2. validations'[k] = validations[k] /\ ValidationRowSound(k)
      BY <1>2, <2>2 DEF ValidationInv
    <3> QED
      BY <3>1, <3>2, <1>5 DEF ValidationRowSound
  <2> QED
    BY <2>1, <2>2
<1>12. \A k \in Entries : Reusable(validations'[k].status) => Reusable(validations[k].status) \/ assigned[k] > 1
  <2>1. Reusable(validations[i].status) \/ validations[i].status = "FAILED"
    BY <1>3 DEF Reusable, Statuses
  <2>2. validations[i].status = "FAILED" => assigned[i] > 1
    BY <1>10 DEF ValidationInv, ValidationRowSound
  <2> QED
    BY <1>2, <2>1, <2>2
<1>13. \A v \in Workers : PostSound(v)'
  BY <1>1, <1>2, <1>5, <1>12 DEF ValidationInv, PostSound, Doing
<1>14. ~crossed => \A k, j \in Entries : PairSound(k, j)'
  BY <1>2, <1>5, <1>12 DEF ValidationInv, PairSound
<1> QED
  BY <1>1, <1>2, <1>8, <1>9, <1>11, <1>13, <1>14 DEF ValidationInv

(* The next attempt of a task.                                             *)
LEMMA AttemptFailsInv ==
  ASSUME ValidationInv, NEW w \in Workers, AttemptFails(w)
  PROVE  ValidationInv'
<1>1. RequestInv' /\ UNCHANGED <<request, crossed, validations, aged, added, assigned, stranded>>
  BY StatementStep DEF ValidationInv, AttemptFails, requestVars
<1>2. asking[w] \in [row : Entries, attempt : 1..Attempts] /\ asking[w].attempt < Attempts
  BY DEF AttemptFails, ValidationInv, ValidationTyped
<1> DEFINE p == [row |-> asking[w].row, attempt |-> asking[w].attempt + 1]
<1>3. p \in [row : Entries, attempt : 1..Attempts] /\ p.row = asking[w].row
  BY <1>2, ValidationAssumption
<1>4. [asking[w] EXCEPT !.attempt = @ + 1] = p
  BY <1>2
<1>5. asking' = [asking EXCEPT ![w] = p]
  BY <1>4 DEF AttemptFails
<1>6. p # None
  <2>1. Entries \subseteq Slots
    BY ValidationRowFacts DEF ValidationInv
  <2> QED
    BY <1>3, <2>1, ValidationAssumption DEF Slots
<1> HIDE DEF p
<1>7. DOMAIN asking' = Workers /\ asking'[w] = p /\ \A v \in Workers \ {w} : asking'[v] = asking[v]
  BY <1>5 DEF ValidationInv, ValidationTyped
<1>8. ValidationTyped' /\ Entries' = Entries
  BY <1>1, <1>3, <1>7 DEF ValidationInv, ValidationTyped, Entries
<1>9. \A v \in Workers, k \in Slots : Asks(v, k)' <=> Asks(v, k)
  BY <1>3, <1>6, <1>7 DEF Asks, AttemptFails
<1>10. \A k \in Slots : Counted(k)'
  BY <1>1, <1>9 DEF ValidationInv, Counted
<1>11. \A k \in Entries : ValidationRowSound(k)'
  BY <1>1, <1>9, ValidationRowFacts DEF ValidationInv, ValidationRowSound, TaskLeft
<1>12. (\A v \in Workers : PostSound(v)') /\ (~crossed => \A k, j \in Entries : PairSound(k, j)')
  BY <1>1, <1>8 DEF ValidationInv, PostSound, Doing, PairSound
<1> QED
  BY <1>1, <1>8, <1>10, <1>11, <1>12 DEF ValidationInv

(* A task ends with a result, or with a failure that is written.           *)
LEMMA ValidationResultInv ==
  ASSUME ValidationInv, NEW w \in Workers, asking[w] # None, NEW s \in {"COMPLETED", "FAILED"}, NEW f \in BOOLEAN,
         Result(w, s, f), f = (s = "FAILED" \/ validations[asking[w].row].failed)
  PROVE  ValidationInv'
<1> DEFINE r == asking[w].row
<1>1. RequestInv' /\ UNCHANGED <<request, crossed, aged, added, assigned, stranded>>
  BY StatementStep DEF ValidationInv, Result, requestVars
<1>2. r \in Entries /\ Asks(w, r)
  BY DEF ValidationInv, ValidationTyped, Asks
<1> HIDE DEF r
<1>3. /\ validations' \in Seq(EntryOf) /\ Len(validations') = Len(validations) /\ Entries' = Entries
      /\ \A k \in Entries : k # r => validations'[k] = validations[k]
      /\ validations'[r].status = s /\ validations'[r].failed = f /\ validations'[r].by = validations[r].by
  BY <1>2, RowWritten DEF ValidationInv, Result, Statuses, r
<1>4. /\ r \in Slots /\ r \in Nat /\ validations[r].status \in Statuses
      /\ added[r] \in Nat /\ assigned[r] \in Nat /\ validations[r].failed \in BOOLEAN
      /\ added[r] + 1 <= assigned[r] /\ ValidationRowSound(r) /\ Counted(r)
  BY <1>2, ValidationRowFacts DEF ValidationInv, Counted
<1>5. DOMAIN asking' = Workers /\ asking'[w] = None /\ \A v \in Workers \ {w} : asking'[v] = asking[v]
  BY DEF Result, ValidationInv, ValidationTyped
<1>6. ValidationTyped'
  BY <1>1, <1>3, <1>5 DEF ValidationInv, ValidationTyped
<1>7. \A v \in Workers : \A k \in Slots : Asks(v, k)' <=> v # w /\ Asks(v, k)
  BY <1>5 DEF Asks
<1>8. \A k \in Slots : Counted(k)'
  BY <1>1, <1>7 DEF ValidationInv, Counted
<1>9. ASSUME NEW k \in Entries PROVE ValidationRowSound(k)'
  <2>1. CASE k = r
    <3>1. TaskLeft(k)' => assigned[k] > 1
      BY <1>1, <1>2, <1>4, <1>7, <2>1 DEF TaskLeft, Counted
    <3>2. validations[k].failed => assigned[k] > 1
      BY <1>2, <1>4, <2>1 DEF ValidationRowSound, TaskLeft
    <3>3. validations'[k].status = s /\ validations'[k].failed = f /\ assigned[k] > 0
      BY <1>3, <1>4, <2>1
    <3>4. f = (s = "FAILED" \/ validations[k].failed)
      BY <2>1 DEF r
    <3> QED
      BY <3>1, <3>2, <3>3, <3>4, <1>1 DEF ValidationRowSound, Unfinished
  <2>2. CASE k # r
    <3>1. TaskLeft(k)' <=> TaskLeft(k)
      <4>1. ~Asks(w, k) /\ k \in Slots
        BY <2>2, ValidationRowFacts DEF Asks, r, ValidationInv
      <4> QED
        BY <4>1, <1>1, <1>7 DEF TaskLeft
    <3>2. validations'[k] = validations[k] /\ ValidationRowSound(k)
      BY <1>3, <2>2 DEF ValidationInv
    <3> QED
      BY <3>1, <3>2, <1>1 DEF ValidationRowSound
  <2> QED
    BY <2>1, <2>2
<1>10. \A k \in Entries : Reusable(validations'[k].status) => Reusable(validations[k].status) \/ assigned[k] > 1
  <2>1. Reusable(validations[r].status) \/ validations[r].status = "FAILED"
    BY <1>4 DEF Reusable, Statuses
  <2>2. validations[r].status = "FAILED" => assigned[r] > 1
    BY <1>2, <1>4 DEF ValidationRowSound, TaskLeft
  <2> QED
    BY <1>3, <2>1, <2>2
<1>11. \A v \in Workers : PostSound(v)'
  BY <1>1, <1>3, <1>10 DEF ValidationInv, PostSound, Doing
<1>12. ~crossed => \A k, j \in Entries : PairSound(k, j)'
  BY <1>1, <1>3, <1>10 DEF ValidationInv, PairSound
<1> QED
  BY <1>1, <1>3, <1>6, <1>8, <1>9, <1>11, <1>12 DEF ValidationInv

(* The process ends.                                                       *)
LEMMA ProcessEndsInv == ValidationInv /\ ProcessEnds => ValidationInv'
<1> SUFFICES ASSUME ValidationInv, ProcessEnds PROVE ValidationInv'
  OBVIOUS
<1>1. RequestInv' /\ crossed' = crossed /\ \A w \in Workers : request'[w] = None
  <2>1. RequestTypeOK'
    BY RequestAssumption DEF ProcessEnds, ValidationInv, RequestInv, RequestTypeOK
  <2>2. crossed' = crossed /\ \A w \in Workers : request'[w] = None
    BY DEF ProcessEnds
  <2> QED
    BY <2>1, <2>2 DEF RequestInv, OneAtATime
<1>2. /\ added' = [i \in Slots |-> 0] /\ asking' = [w \in Workers |-> None]
      /\ stranded' = {i \in DOMAIN validations : validations[i].status \in Unfinished}
      /\ UNCHANGED <<validations, aged, assigned>>
  BY DEF ProcessEnds, Slots
<1>3. DOMAIN validations = Entries
  BY DEF ValidationInv, ValidationTyped, Entries
<1>4. ValidationTyped' /\ Entries' = Entries
  BY <1>2 DEF ValidationInv, ValidationTyped, Entries
<1>5. \A k \in Slots : Counted(k)'
  BY <1>2 DEF ValidationInv, ValidationTyped, Counted, Asks
<1>6. \A k \in Entries : ValidationRowSound(k)'
  BY <1>2, <1>3, ValidationRowFacts DEF ValidationInv, ValidationRowSound, TaskLeft, Asks
<1>7. (\A w \in Workers : PostSound(w)') /\ (~crossed => \A k, j \in Entries : PairSound(k, j)')
  BY <1>1, <1>2 DEF ValidationInv, PostSound, Doing, PairSound
<1> QED
  BY <1>1, <1>4, <1>5, <1>6, <1>7 DEF ValidationInv

(* A row becomes older than the window.                                    *)
LEMMA WindowPassesInv == ValidationInv /\ WindowPasses => ValidationInv'
<1> SUFFICES ASSUME ValidationInv, WindowPasses PROVE ValidationInv'
  OBVIOUS
<1>1. /\ RequestInv' /\ aged' = aged + 1 /\ aged < Len(validations)
      /\ UNCHANGED <<request, crossed, validations, added, asking, assigned, stranded>>
  BY StatementStep DEF ValidationInv, WindowPasses, requestVars
<1>2. ValidationTyped' /\ Entries' = Entries
  BY <1>1 DEF ValidationInv, ValidationTyped, Entries
<1>3. (\A k \in Slots : Counted(k)') /\ \A k \in Entries : ValidationRowSound(k)'
  BY <1>1 DEF ValidationInv, Counted, ValidationRowSound, TaskLeft, Asks
<1>4. \A k \in Entries : k \in Nat /\ aged \in Nat
  BY DEF ValidationInv, ValidationTyped, Entries
<1>5. (\A w \in Workers : PostSound(w)') /\ (~crossed => \A k, j \in Entries : PairSound(k, j)')
  BY <1>1, <1>2, <1>4 DEF ValidationInv, PostSound, Doing, PairSound
<1> QED
  BY <1>1, <1>2, <1>3, <1>5 DEF ValidationInv

(* Every step preserves the invariant.                                     *)
LEMMA ValidationNextInv == ValidationInv /\ [ValidationNext]_<<requestVars, validationVars>> => ValidationInv'
<1> SUFFICES ASSUME ValidationInv, [ValidationNext]_<<requestVars, validationVars>> PROVE ValidationInv'
  OBVIOUS
<1>1. ASSUME NEW w \in Workers, PostBegin(w) PROVE ValidationInv'
  BY <1>1, ValidationBeginInv DEF PostBegin
<1>2. ASSUME NEW w \in Workers, NEW i, RetryBegin(w, i) PROVE ValidationInv'
  BY <1>2, ValidationBeginInv DEF RetryBegin
<1>3. ASSUME NEW w \in Workers, AttemptFails(w) \/ StoreCommit(w) PROVE ValidationInv'
  BY <1>3, AttemptFailsInv, StoreCommitInv
<1>4. ASSUME NEW w \in Workers, Completes(w) PROVE ValidationInv'
  <2>1. asking[w] # None /\ asking[w].row \in Entries
    BY <1>4 DEF Completes, ValidationInv, ValidationTyped
  <2>2. validations[asking[w].row].failed \in BOOLEAN
    BY <2>1, ValidationRowFacts DEF ValidationInv
  <2> QED
    BY <1>4, <2>1, <2>2, ValidationResultInv DEF Completes
<1>5. ASSUME NEW w \in Workers, Fails(w) PROVE ValidationInv'
  BY <1>5, ValidationResultInv DEF Fails
<1>6. ASSUME NEW w \in Workers, NEW i \in DOMAIN validations, TaskStarts(w, i) PROVE ValidationInv'
  BY <1>6, TaskStartsInv DEF Entries, ValidationInv, ValidationTyped
<1>7. ASSUME UNCHANGED <<requestVars, validationVars>> PROVE ValidationInv'
  <2>1. RequestInv' /\ UNCHANGED <<request, crossed>>
    BY <1>7, StatementStep DEF ValidationInv
  <2> QED
    BY <1>7, <2>1 DEF validationVars, ValidationInv, ValidationTyped, Entries, Counted,
                 ValidationRowSound, TaskLeft, Asks, PostSound, Doing, PairSound
<1> QED
  BY <1>1, <1>2, <1>3, <1>4, <1>5, <1>6, <1>7, PostReusedInv, ProcessEndsInv, WindowPassesInv DEF ValidationNext

(* The rows left without a task are rows: none is ever deleted.            *)
LEMMA StrandedKept ==
  ASSUME ValidationInv, stranded \subseteq DOMAIN validations,
         [ValidationNext]_<<requestVars, validationVars>>
  PROVE  (stranded \subseteq DOMAIN validations)'
<1>1. ValidationInv'
  BY ValidationNextInv
<1>2. /\ validations \in Seq(EntryOf) /\ Len(validations) \in Nat /\ DOMAIN validations = 1..Len(validations)
      /\ Len(validations') \in Nat /\ DOMAIN validations' = 1..Len(validations')
  BY <1>1, LenProperties DEF ValidationInv, ValidationTyped
<1>3. CASE ProcessEnds
  BY <1>3 DEF ProcessEnds
<1>4. CASE \E w \in Workers : StoreCommit(w)
  <2>1. PICK w \in Workers : StoreCommit(w)
    BY <1>4
  <2>2. DOMAIN validations \subseteq DOMAIN validations'
    <3> DEFINE p == [status |-> "PENDING", by |-> request[w].op, failed |-> FALSE]
    <3>1. validations' = Append(validations, p)
      BY <2>1 DEF StoreCommit
    <3>2. p \in EntryOf
      BY <2>1 DEF StoreCommit, Doing, EntryOf, Statuses, Unfinished
    <3> HIDE DEF p
    <3>3. Len(validations') = Len(validations) + 1
      BY <1>2, <3>1, <3>2, AppendProperties
    <3> QED
      BY <1>2, <3>3
  <2>3. stranded' \subseteq stranded
    BY <2>1 DEF StoreCommit, AddTask
  <2> QED
    BY <2>2, <2>3
<1>5. CASE PostReused
  BY <1>5 DEF PostReused, AddTask
<1>6. CASE UNCHANGED <<requestVars, validationVars>>
  BY <1>6 DEF validationVars
<1>7. CASE WindowPasses
  BY <1>7 DEF WindowPasses
<1>8. ASSUME NEW w \in Workers,
             \/ PostBegin(w) \/ AttemptFails(w) \/ Completes(w) \/ Fails(w)
             \/ \E i \in DOMAIN validations : RetryBegin(w, i) \/ TaskStarts(w, i)
      PROVE  DOMAIN validations' = DOMAIN validations /\ stranded' = stranded
  BY <1>8 DEF PostBegin, AttemptFails, Completes, Fails, Result, RetryBegin, TaskStarts, validationVars
<1> QED
  BY <1>3, <1>4, <1>5, <1>6, <1>7, <1>8 DEF ValidationNext

(* The invariant says what the runs check.                                 *)
LEMMA ValidationInvSound ==
  ASSUME ValidationInv, stranded \subseteq DOMAIN validations
  PROVE  ValidationSound
<1>1. DOMAIN validations = Entries
  BY DEF ValidationInv, ValidationTyped, Entries
<1>2. NoneLeftOpen
  BY <1>1 DEF NoneLeftOpen, ValidationInv, ValidationRowSound, TaskLeft, Asks
<1>3. OneRequestPerWindow
  <2> SUFFICES ASSUME ~crossed, NEW i \in (aged + 1)..Len(validations), NEW j \in (aged + 1)..Len(validations),
                      i < j, validations[j].by = "post", Reusable(validations[i].status)
               PROVE  assigned[i] > 1
    BY DEF OneRequestPerWindow
  <2>1. i \in Entries /\ j \in Entries /\ aged < i
    BY DEF ValidationInv, ValidationTyped, Entries
  <2> QED
    BY <2>1 DEF ValidationInv, PairSound
<1>4. OneOutcome
  BY <1>1 DEF OneOutcome, ValidationInv, ValidationRowSound
<1>5. ValidationTypeOK
  <2>1. EntryOf = [status : Unfinished \cup {"COMPLETED", "FAILED"}, by : {"post", "retry"}, failed : BOOLEAN]
    BY DEF EntryOf, Statuses
  <2>2. Len(validations) \in Nat
    BY DEF ValidationInv, ValidationTyped
  <2> QED
    BY <1>1, <2>1, <2>2 DEF ValidationTypeOK, ValidationInv, ValidationTyped, Slots
<1> QED
  BY <1>2, <1>3, <1>4, <1>5 DEF ValidationSound

(* A validation comes to one end: it stays open only while a task is there *)
(* to finish it or a crash took the task; a POST repeats one of the window *)
(* only after a failure; and a result beside an error took two tasks.      *)
THEOREM ValidationIsSound == ValidationSpec => []ValidationSound
<1> DEFINE AnInv == ValidationInv /\ stranded \subseteq DOMAIN validations
<1>1. RequestInit /\ ValidationInit => AnInv
  BY ValidationInitInv DEF ValidationInit
<1>2. AnInv /\ [ValidationNext]_<<requestVars, validationVars>> => AnInv'
  BY ValidationNextInv, StrandedKept
<1>3. AnInv => ValidationSound
  BY ValidationInvSound
<1> QED
  BY <1>1, <1>2, <1>3, PTL DEF ValidationSpec

-----------------------------------------------------------------------------
(***************************************************************************)
(* Proof that the two checks of field mappings, of a configuration when it *)
(* is saved and of a record when it is ingested, agree for every template  *)
(* and every record.                                                       *)
(***************************************************************************)

(* What is mapped of a template, and what makes a value of it None.        *)
LEMMA Mapped ==
  ASSUME NEW t, NEW r
  PROVE  /\ (\E f \in t.must : IsNone(t, r, f)) => Applied(t, r) = {}
         /\ ~(\E f \in t.must : IsNone(t, r, f)) =>
              /\ {v.field : v \in Applied(t, r)} = Targets(t)
              /\ \A v \in Applied(t, r) :
                   /\ v.none <=> IsNone(t, r, v.field)
                   /\ v.readable <=> v.field \notin r.unreadable
              /\ \A f \in Targets(t) : \E v \in Applied(t, r) : v.field = f
<1>1. (\E f \in t.must : IsNone(t, r, f)) => Applied(t, r) = {}
  BY DEF Applied
<1>2. ASSUME ~(\E f \in t.must : IsNone(t, r, f))
      PROVE  /\ {v.field : v \in Applied(t, r)} = Targets(t)
             /\ \A v \in Applied(t, r) :
                  /\ v.none <=> IsNone(t, r, v.field)
                  /\ v.readable <=> v.field \notin r.unreadable
             /\ \A f \in Targets(t) : \E v \in Applied(t, r) : v.field = f
  <2>1. PICK P : P = Applied(t, r)
    OBVIOUS
  <2>2. P = {[field |-> f, none |-> IsNone(t, r, f), readable |-> f \notin r.unreadable] : f \in Targets(t)}
    BY <1>2, <2>1 DEF Applied
  <2>3. ASSUME NEW v \in P
        PROVE  /\ v.field \in Targets(t)
               /\ v.none <=> IsNone(t, r, v.field)
               /\ v.readable <=> v.field \notin r.unreadable
    <3>1. PICK f \in Targets(t) :
             v = [field |-> f, none |-> IsNone(t, r, f), readable |-> f \notin r.unreadable]
      BY <2>2
    <3>2. v.field = f /\ v.none = IsNone(t, r, f) /\ v.readable = (f \notin r.unreadable)
      BY <3>1
    <3> QED
      BY <3>2
  <2>4. ASSUME NEW f \in Targets(t) PROVE \E v \in P : v.field = f
    <3>1. PICK v : v = [field |-> f, none |-> IsNone(t, r, f), readable |-> f \notin r.unreadable]
      OBVIOUS
    <3> QED
      BY <2>2, <3>1
  <2> QED
    BY <2>1, <2>3, <2>4
<1> QED
  BY <1>1, <1>2

(* An amount of a transaction is read as a number by every template.       *)
LEMMA AmountsAreNumbers ==
  ASSUME NEW k \in DOMAIN Templates, EntityOf(k) = "TRANSACTION"
  PROVE  "amount" \in Templates[k].numbers
<1>1. k \in {"Alpha_TRANSACTION", "Beta_TRANSACTION", "X_TRANSACTION", "Gamma_TRANSACTION",
             "Delta_TRANSACTION", "Epsilon_TRANSACTION"}
  BY DEF EntityOf, Templates
<1>2. \A a, b, c : Fields(a, {"amount"}, b, c).numbers = {"amount"}
  BY DEF Fields
<1>3. CASE k \in {"Alpha_TRANSACTION", "Beta_TRANSACTION"}
  <2>1. Templates[k] = Fields(Movement, {"amount"}, {}, {})
    BY <1>3 DEF Templates
  <2> QED
    BY <1>2, <2>1
<1>4. CASE k \notin {"Alpha_TRANSACTION", "Beta_TRANSACTION"}
  <2>1. \E a, b, c : Templates[k] = Fields(a, {"amount"}, b, c)
    BY <1>1, <1>4 DEF Templates
  <2> QED
    BY <1>2, <2>1
<1> QED
  BY <1>3, <1>4

(* A payload is accepted if no field that is needed is None.               *)
LEMMA AcceptedPayload ==
  ASSUME FieldMappingInit, NEW t, t = Templates[template], TargetsValid(template),
         NEW needed, needed = t.must \cup (Targets(t) \cap UNION RequiredAny(EntityOf(template)))
  PROVE  Ingestible(template, raw) <=>
           /\ \A f \in needed : ~IsNone(t, raw, f)
           /\ EntityOf(template) = "TRANSACTION" => raw.positive /\ "occurred_at" \notin raw.unreadable
<1>1. PICK entity : entity = EntityOf(template)
  OBVIOUS
<1>2. PICK payload : payload = Applied(t, raw)
  OBVIOUS
<1>3. PICK groups : groups = RequiredAny(entity)
  OBVIOUS
<1>4. /\ Targets(t) \subseteq AllowedFields(entity) /\ MissingGroups(entity, Targets(t)) = {}
      /\ \A g \in groups : g \cap Targets(t) # {}
  BY <1>1, <1>3 DEF TargetsValid, MissingGroups
<1>5. groups # {} /\ (entity = "TRANSACTION" => {"amount"} \in groups /\ {"occurred_at"} \in groups)
  BY <1>1, <1>3 DEF RequiredAny, EntityOf
<1>6. Targets(t) # {} /\ (entity = "TRANSACTION" => {"amount", "occurred_at"} \subseteq Targets(t) \cap UNION groups)
  <2>1. Targets(t) # {}
    BY <1>4, <1>5
  <2>2. ASSUME entity = "TRANSACTION" PROVE "amount" \in Targets(t) /\ "occurred_at" \in Targets(t)
    BY <1>4, <1>5, <2>2
  <2> QED
    BY <1>5, <2>1, <2>2
<1>7. Ingestible(template, raw) <=>
        /\ payload # {}
        /\ UnknownFields(entity, {v.field : v \in payload}) = {}
        /\ MissingGroups(entity, {v.field : v \in payload}) = {}
        /\ EmptyRequired(entity, payload) = {}
        /\ entity = "TRANSACTION" =>
             /\ \A v \in payload : v.field = "amount" => v.readable /\ ~v.none /\ raw.positive
             /\ \A v \in payload : v.field = "occurred_at" => v.readable
  BY <1>1, <1>2 DEF Ingestible
<1>8. CASE \E f \in t.must : IsNone(t, raw, f)
  <2>1. payload = {}
    BY <1>2, <1>8, Mapped
  <2> QED
    BY <1>7, <1>8, <2>1
<1>9. CASE ~\E f \in t.must : IsNone(t, raw, f)
  <2>1. /\ {v.field : v \in payload} = Targets(t)
        /\ \A v \in payload : /\ v.none <=> IsNone(t, raw, v.field)
                              /\ v.readable <=> v.field \notin raw.unreadable
        /\ \A f \in Targets(t) : \E v \in payload : v.field = f
    BY <1>2, <1>9, Mapped
  <2>2. payload # {}
    BY <1>6, <2>1
  <2>3. UnknownFields(entity, Targets(t)) = {} /\ MissingGroups(entity, Targets(t)) = {}
    BY <1>4 DEF UnknownFields
  <2>4. EmptyRequired(entity, payload) = {} <=> \A f \in Targets(t) \cap UNION groups : ~IsNone(t, raw, f)
    <3>1. EmptyRequired(entity, payload) = {v \in payload : v.none /\ v.field \in UNION groups}
      BY <1>3 DEF EmptyRequired
    <3>2. \A v \in payload : v.field \in Targets(t)
      BY <2>1
    <3> QED
      BY <2>1, <3>1, <3>2
  <2>5. ASSUME entity = "TRANSACTION", \A f \in Targets(t) \cap UNION groups : ~IsNone(t, raw, f)
        PROVE  (/\ \A v \in payload : v.field = "amount" => v.readable /\ ~v.none /\ raw.positive
                /\ \A v \in payload : v.field = "occurred_at" => v.readable)
               <=> raw.positive /\ "occurred_at" \notin raw.unreadable
    <3>1. "amount" \in t.numbers
      BY <1>1, <2>5, AmountsAreNumbers DEF FieldMappingInit
    <3>2. ~IsNone(t, raw, "amount") /\ "amount" \notin raw.unreadable
      BY <1>6, <2>5, <3>1 DEF IsNone, Columns
    <3>3. PICK a \in payload : a.field = "amount"
      BY <1>6, <2>1, <2>5
    <3>4. PICK o \in payload : o.field = "occurred_at"
      BY <1>6, <2>1, <2>5
    <3> QED
      BY <2>1, <3>2, <3>3, <3>4
  <2> QED
    BY <1>1, <1>3, <1>7, <1>9, <2>1, <2>2, <2>3, <2>4, <2>5
<1> QED
  BY <1>8, <1>9

(* A record that has every column is accepted with a template that is.     *)
LEMMA SavedIsTaken == ASSUME FieldMappingInit PROVE CheckedOnSave
<1> SUFFICES ASSUME Whole(raw) PROVE Ingestible(template, raw) <=> TargetsValid(template)
  BY DEF CheckedOnSave
<1>1. PICK t : t = Templates[template]
  OBVIOUS
<1>2. \A f : ~IsNone(t, raw, f)
  BY DEF Whole, IsNone
<1>3. PICK needed : needed = t.must \cup (Targets(t) \cap UNION RequiredAny(EntityOf(template)))
  OBVIOUS
<1>4. TargetsValid(template) => Ingestible(template, raw)
  BY <1>1, <1>2, <1>3, AcceptedPayload DEF Whole
<1>5. ASSUME Ingestible(template, raw) PROVE TargetsValid(template)
  <2>1. {v.field : v \in Applied(t, raw)} = Targets(t)
    BY <1>2, Mapped
  <2> QED
    BY <1>1, <1>5, <2>1 DEF Ingestible, TargetsValid, UnknownFields
<1> QED
  BY <1>4, <1>5

(* A record is refused for what is needed of it and None.                  *)
LEMMA RefusedForALack == ASSUME FieldMappingInit PROVE RefusedForAColumn
<1>1. PICK t : t = Templates[template]
  OBVIOUS
<1>2. PICK needed : needed = t.must \cup (Targets(t) \cap UNION RequiredAny(EntityOf(template)))
  OBVIOUS
<1>3. (\A f \in needed : ~IsNone(t, raw, f)) <=>
        /\ \A f \in needed \cap Columns(t) : f \notin raw.missing
        /\ needed \cap t.numbers \cap raw.unreadable = {}
  BY DEF IsNone, Columns
<1>4. ASSUME TargetsValid(template)
      PROVE  Ingestible(template, raw) <=>
               /\ \A f \in needed : ~IsNone(t, raw, f)
               /\ EntityOf(template) = "TRANSACTION" => raw.positive /\ "occurred_at" \notin raw.unreadable
  BY <1>1, <1>2, <1>4, AcceptedPayload
<1> QED
  BY <1>1, <1>2, <1>3, <1>4 DEF RefusedForAColumn

(* For any record, with any columns missing or unreadable: a template that *)
(* passes the check of its targets maps whole records to payloads that are *)
(* accepted, and a record is refused for what it lacks only.               *)
THEOREM FieldsAreSound == FieldMappingInit => FieldsSound
BY SavedIsTaken, RefusedForALack DEF FieldsSound

-----------------------------------------------------------------------------
(***************************************************************************)
(* Proof that what is computed for one answer is what the tables say.      *)
(* There is no step and hence no invariant; the work is in the lists of    *)
(* the filing desk, where counting who is ahead of whom tells what a list  *)
(* of the first n takes in.                                                *)
(***************************************************************************)

(* Who shares an element with one of a set, and is not of it, is a peer.   *)
LEMMA PeersAreNear ==
  ASSUME sharing \in [Kinds -> SUBSET People], NEW set, set \subseteq People
  PROVE  /\ Near(set) = set \cup Peers(set)
         /\ \A q \in Peers(set) : q \in People \ set /\ \E p \in set, kind \in Kinds : Share(kind, p, q)
         /\ \A q \in People \ set : (\E p \in set, kind \in Kinds : Share(kind, p, q)) => q \in Peers(set)
<1>1. ASSUME NEW q \in Peers(set)
      PROVE  q \in People \ set /\ \E p \in set, kind \in Kinds : Share(kind, p, q)
  <2>1. PICK kind \in Kinds : sharing[kind] \cap set # {} /\ q \in sharing[kind] /\ q \notin set
    BY DEF Peers
  <2>2. PICK p \in set : p \in sharing[kind]
    BY <2>1
  <2> QED
    BY <2>1, <2>2 DEF Share
<1>2. ASSUME NEW q \in People \ set, NEW p \in set, NEW kind \in Kinds, Share(kind, p, q)
      PROVE  q \in Peers(set)
  BY <1>2 DEF Peers, Share
<1>3. Near(set) = set \cup Peers(set)
  BY <1>1, <1>2 DEF Near
<1> QED
  BY <1>1, <1>2, <1>3

(* The two expansions reach whom two hops reach: who is a peer of the      *)
(* focal player's peers, and of no other, is found by the second; the      *)
(* focal player, whom it finds again, is a node already.                   *)
LEMMA ReachedIsWithin ==
  ASSUME NetworkInit, NEW depth \in {1, 2} PROVE Reached(depth) = Within(depth)
<1>1. sharing \in [Kinds -> SUBSET People] /\ {Focal} \subseteq People
  BY NetworkAssumption DEF NetworkInit
<1>2. PICK first : first = Peers({Focal})
  OBVIOUS
<1>3. Near({Focal}) = {Focal} \cup first /\ first \subseteq People \ {Focal}
  BY <1>1, <1>2, PeersAreNear
<1>4. CASE depth = 1
  BY <1>2, <1>3, <1>4 DEF Reached, Within
<1>5. CASE depth = 2
  <2>1. PICK hop : hop = {Focal} \cup first
    OBVIOUS
  <2>2. hop \subseteq People /\ first \subseteq People
    BY <1>1, <1>3, <2>1
  <2>3. Within(depth) = hop \cup Peers(hop)
    BY <1>1, <1>3, <1>5, <2>1, <2>2, PeersAreNear DEF Within
  <2>4. Reached(depth) = hop \cup (IF first # {} THEN Peers(first) ELSE {})
    BY <1>2, <1>5, <2>1 DEF Reached
  <2>5. first # {} => Peers(first) \subseteq hop \cup Peers(hop)
    <3> SUFFICES ASSUME NEW q \in Peers(first), q \notin hop PROVE q \in Peers(hop)
      OBVIOUS
    <3>1. PICK p \in first, kind \in Kinds : Share(kind, p, q) /\ q \in People
      BY <1>1, <2>2, PeersAreNear
    <3> QED
      BY <1>1, <2>1, <2>2, <3>1, PeersAreNear
  <2>6. ASSUME NEW q \in Peers(hop) PROVE first # {} /\ q \in hop \cup Peers(first)
    <3>1. PICK p \in hop, kind \in Kinds : Share(kind, p, q) /\ q \in People \ hop
      BY <1>1, <2>2, PeersAreNear
    <3>2. CASE p = Focal
      BY <1>1, <1>2, <2>1, <3>1, <3>2, PeersAreNear
    <3>3. CASE p \in first
      BY <1>1, <2>1, <2>2, <3>1, <3>3, PeersAreNear
    <3> QED
      BY <2>1, <3>1, <3>2, <3>3
  <2> QED
    BY <2>3, <2>4, <2>5, <2>6
<1> QED
  BY <1>4, <1>5

(* The nodes are those within the hops, all of them if they fit.           *)
LEMMA NetworkNodes == ASSUME NetworkInit PROVE NodesWithinHops
<1> SUFFICES ASSUME NEW depth \in {1, 2}, NEW nodes \in NodeSets(depth)
             PROVE  /\ nodes \subseteq Within(depth)
                    /\ Cardinality(Within(depth)) <= MaxNodes => nodes = Within(depth)
  BY DEF NodesWithinHops
<1>1. Reached(depth) = Within(depth)
  BY ReachedIsWithin
<1> QED
  BY <1>1 DEF NodeSets, kSubset

(* The edges of one hop join the focal player with each of its peers, by   *)
(* an element of their kind that both have.                                *)
LEMMA NetworkEdges == ASSUME NetworkInit PROVE EdgesShared
<1>1. sharing \in [Kinds -> SUBSET People] /\ {Focal} \subseteq People
  BY NetworkAssumption DEF NetworkInit
<1>2. ASSUME NEW q \in Peers({Focal})
      PROVE  q # Focal /\ Share(FirstKind({Focal}, q), Focal, q)
  <2>1. q # Focal /\ \E kind \in Kinds : Share(kind, Focal, q)
    BY <1>1, PeersAreNear
  <2>2. \A kind : (\E p \in {Focal} : Share(kind, p, q)) <=> Share(kind, Focal, q)
    OBVIOUS
  <2> QED
    BY <2>1, <2>2 DEF FirstKind, Kinds
<1>3. Edges(1) = {[ends |-> {Focal, q}, kind |-> FirstKind({Focal}, q)] : q \in Peers({Focal})}
  BY DEF Edges, EdgesFrom
<1>4. ASSUME NEW e \in Edges(1) PROVE \E p, q \in e.ends : p # q /\ Share(e.kind, p, q)
  <2>1. PICK q \in Peers({Focal}) : e = [ends |-> {Focal, q}, kind |-> FirstKind({Focal}, q)]
    BY <1>3
  <2>2. PICK kind : kind = FirstKind({Focal}, q)
    OBVIOUS
  <2>3. e.ends = {Focal, q} /\ e.kind = kind
    BY <2>1, <2>2
  <2>4. q # Focal /\ Share(kind, Focal, q)
    BY <1>2, <2>2
  <2> QED
    BY <2>3, <2>4
<1>5. ASSUME NEW q \in Peers({Focal}) PROVE \E e \in Edges(1) : e.ends = {Focal, q}
  <2>1. PICK e : e = [ends |-> {Focal, q}, kind |-> FirstKind({Focal}, q)]
    OBVIOUS
  <2> QED
    BY <1>3, <2>1
<1> QED
  BY <1>4, <1>5 DEF EdgesShared

(* The rows of the lists are finitely many.                                *)
LEMMA ListTyped ==
  ASSUME SanctionsInit PROVE \E n \in Nat : DOMAIN listed = 1..n /\ listed \in [1..n -> CsvRows]
BY SanctionsAssumption DEF SanctionsInit

(* The rows of a CPF have a last one, which is the one that is found.      *)
LEMMA LastOfCpf ==
  ASSUME SanctionsInit, NEW cpf, cpf # NoCpf, NEW i \in DOMAIN listed, listed[i].cpf = cpf
  PROVE  ByCpf(cpf) # {}
<1>1. PICK n \in Nat : DOMAIN listed = 1..n
  BY ListTyped
<1>2. PICK S : S = {j \in DOMAIN listed : listed[j].cpf = cpf}
  OBVIOUS
<1>3. S \subseteq Nat /\ S # {} /\ \A j \in S : j <= n
  BY <1>1, <1>2
<1>4. PICK k \in S : \A j \in S : j <= k
  BY <1>3, GreatestExists
<1> QED
  BY <1>2, <1>4 DEF ByCpf

(* Who is listed is found, by the one or by the other.                     *)
LEMMA ListedAreFound == ASSUME SanctionsInit PROVE ListedIsFound
<1> SUFFICES ASSUME NEW i \in DOMAIN listed,
                    \/ subject.cpf # NoCpf /\ subject.cpf = listed[i].cpf
                    \/ subject.name = listed[i].name
             PROVE  Found(subject) # {}
  BY DEF ListedIsFound
<1>1. CASE subject.cpf # NoCpf /\ subject.cpf = listed[i].cpf
  BY <1>1, LastOfCpf DEF Found
<1>2. CASE subject.name = listed[i].name
  <2>1. listed[i].name \in Names
    BY ListTyped DEF CsvRows
  <2> QED
    BY <1>2, <2>1, SanctionsAssumption DEF Found, ByName
<1> QED
  BY <1>1, <1>2

(* Who is found by some of the words of a name is found by fewer.          *)
LEMMA LessFinds == ASSUME SanctionsInit PROVE LessIsFound
<1> SUFFICES ASSUME Found(subject) # {}, NEW name \in Names,
                    Significant(name) # {}, Significant(name) \subseteq Significant(subject.name)
             PROVE  Found([subject EXCEPT !.name = name]) # {}
  BY DEF LessIsFound
<1>1. PICK person : person = [subject EXCEPT !.name = name]
  OBVIOUS
<1>2. person.cpf = subject.cpf /\ person.name = name
  BY <1>1 DEF SanctionsInit
<1>3. CASE ByCpf(subject.cpf) # {}
  BY <1>1, <1>2, <1>3 DEF Found
<1>4. CASE ByName(name) # {}
  BY <1>1, <1>2, <1>4 DEF Found
<1>5. ASSUME ByName(name) = {}, NEW i \in DOMAIN listed, Significant(subject.name) \subseteq WordsOf(listed[i].name)
      PROVE  Found(person) # {}
  <2>1. Partly(listed[i].name, Significant(name))
    BY <1>5 DEF Partly
  <2> QED
    BY <1>2, <1>5, <2>1 DEF Found
<1>6. CASE ByName(subject.name) # {} /\ ByName(name) = {}
  <2>1. PICK i \in DOMAIN listed : subject.name = listed[i].name
    BY <1>6 DEF ByName
  <2>2. Significant(subject.name) \subseteq WordsOf(listed[i].name)
    BY <2>1 DEF Significant
  <2> QED
    BY <1>1, <1>5, <1>6, <2>2
<1>7. CASE ByCpf(subject.cpf) = {} /\ ByName(subject.name) = {} /\ ByName(name) = {}
  <2>1. PICK i \in DOMAIN listed : Partly(listed[i].name, Significant(subject.name))
    BY <1>7 DEF Found
  <2> QED
    BY <1>1, <1>5, <1>7, <2>1 DEF Partly
<1> QED
  BY <1>1, <1>3, <1>4, <1>6, <1>7

(* There are n numbers from one to n, and below n.                         *)
LEMMA Counting ==
  ASSUME NEW n \in Nat
  PROVE  /\ IsFiniteSet(1..n) /\ Cardinality(1..n) = n
         /\ IsFiniteSet(0..(n - 1)) /\ Cardinality(0..(n - 1)) = n
<1>1. IsFiniteSet(1..n) /\ Cardinality(1..n) = IF 1 > n THEN 0 ELSE n - 1 + 1
  BY FS_Interval
<1>2. PICK b \in Int : b = n - 1
  OBVIOUS
<1>3. IsFiniteSet(0..b) /\ Cardinality(0..b) = IF 0 > b THEN 0 ELSE b - 0 + 1
  BY FS_Interval
<1> QED
  BY <1>1, <1>2, <1>3

(* The packages as they are read.                                          *)
LEMMA PileTyped ==
  ASSUME FilingInit
  PROVE  /\ Len(pile) \in Nat /\ Lines = 1..Len(pile) /\ IsFiniteSet(Lines)
         /\ Cardinality(Lines) = Len(pile)
         /\ \A i \in Lines : /\ pile[i].case \in Nat /\ pile[i].age \in Nat
                             /\ pile[i].sar \in BOOLEAN /\ pile[i].filed \in BOOLEAN
                             /\ pile[i].registered \in BOOLEAN
<1>1. pile \in Seq(Package)
  BY QueueAssumption DEF FilingInit
<1>2. Len(pile) \in Nat /\ Lines = 1..Len(pile) /\ \A i \in Lines : pile[i] \in Package
  BY <1>1 DEF Lines
<1>3. IsFiniteSet(Lines) /\ Cardinality(Lines) = Len(pile)
  BY <1>2, Counting
<1>4. ASSUME NEW i \in Lines
      PROVE  /\ pile[i].case \in Nat /\ pile[i].age \in Nat /\ pile[i].sar \in BOOLEAN
             /\ pile[i].filed \in BOOLEAN /\ pile[i].registered \in BOOLEAN
  BY <1>2 DEF Package
<1> QED
  BY <1>2, <1>3, <1>4

Ahead(set, rank, i) == {j \in set : Before(rank, j, i)}

(* The order of a list is total.                                           *)
LEMMA OrderTotal ==
  ASSUME FilingInit, NEW rank \in [Lines -> Nat]
  PROVE  /\ \A i \in Lines : ~Before(rank, i, i)
         /\ \A i, j \in Lines : i # j => Before(rank, i, j) \/ Before(rank, j, i)
         /\ \A i, j, k \in Lines : Before(rank, i, j) /\ Before(rank, j, k) => Before(rank, i, k)
<1>1. \A i \in Lines : pile[i].case \in Nat /\ pile[i].age \in Nat /\ rank[i] \in Nat /\ i \in Nat
  BY PileTyped
<1>2. \A i \in Lines : ~Before(rank, i, i)
  BY <1>1 DEF Before
<1>3. \A i, j \in Lines : i # j => Before(rank, i, j) \/ Before(rank, j, i)
  BY <1>1 DEF Before
<1>4. ASSUME NEW i \in Lines, NEW j \in Lines, NEW k \in Lines, Before(rank, i, j), Before(rank, j, k)
      PROVE  Before(rank, i, k)
  BY <1>1, <1>4 DEF Before
<1> QED
  BY <1>2, <1>3, <1>4

(* How many are ahead is a number of its own for each line.                *)
LEMMA AheadCounts ==
  ASSUME FilingInit, NEW rank \in [Lines -> Nat], NEW set \in SUBSET Lines
  PROVE  /\ IsFiniteSet(set) /\ Cardinality(set) \in Nat
         /\ \A i \in set : Cardinality(Ahead(set, rank, i)) \in 0..(Cardinality(set) - 1)
         /\ \A i, j \in set : Before(rank, i, j) =>
              Cardinality(Ahead(set, rank, i)) < Cardinality(Ahead(set, rank, j))
<1>1. IsFiniteSet(set) /\ Cardinality(set) \in Nat
  BY PileTyped, FS_Subset, FS_CardinalityType
<1>2. ASSUME NEW S, NEW T, T \subseteq set, S \subseteq T, S # T
      PROVE  Cardinality(S) < Cardinality(T) /\ Cardinality(S) \in Nat /\ Cardinality(T) \in Nat
  <2>1. IsFiniteSet(T) /\ S \in SUBSET T
    BY <1>1, <1>2, FS_Subset
  <2>2. Cardinality(S) <= Cardinality(T) /\ Cardinality(S) # Cardinality(T) /\ IsFiniteSet(S)
    BY <1>2, <2>1, FS_Subset
  <2>3. Cardinality(T) \in Nat
    BY <2>1, FS_CardinalityType
  <2>4. Cardinality(S) \in Nat
    BY <2>2, FS_CardinalityType
  <2> QED
    BY <2>2, <2>3, <2>4
<1>3. ASSUME NEW i \in set PROVE Cardinality(Ahead(set, rank, i)) \in 0..(Cardinality(set) - 1)
  <2>1. i \notin Ahead(set, rank, i) /\ Ahead(set, rank, i) \subseteq set
    BY OrderTotal DEF Ahead
  <2>2. Cardinality(Ahead(set, rank, i)) < Cardinality(set) /\ Cardinality(Ahead(set, rank, i)) \in Nat
    BY <1>2, <2>1
  <2> QED
    BY <1>1, <2>2
<1>4. ASSUME NEW i \in set, NEW j \in set, Before(rank, i, j)
      PROVE  Cardinality(Ahead(set, rank, i)) < Cardinality(Ahead(set, rank, j))
  <2>1. i \in Ahead(set, rank, j) /\ i \notin Ahead(set, rank, i)
    BY <1>4, OrderTotal DEF Ahead
  <2>2. Ahead(set, rank, i) \subseteq Ahead(set, rank, j) /\ Ahead(set, rank, j) \subseteq set
    BY <1>4, OrderTotal DEF Ahead
  <2> QED
    BY <1>2, <2>1, <2>2
<1> QED
  BY <1>1, <1>3, <1>4

(* The first n are n, if there are as many, and otherwise all: how many    *)
(* are ahead of each of c lines is each of the numbers below c, once.      *)
LEMMA FirstCounts ==
  ASSUME FilingInit, NEW rank \in [Lines -> Nat], NEW set \in SUBSET Lines, NEW n \in Nat
  PROVE  /\ First(n, set, rank) = {i \in set : Cardinality(Ahead(set, rank, i)) < n}
         /\ n <= Cardinality(set) => Cardinality(First(n, set, rank)) = n
         /\ n >= Cardinality(set) => First(n, set, rank) = set
<1>1. First(n, set, rank) = {i \in set : Cardinality(Ahead(set, rank, i)) < n}
  BY DEF First, Ahead
<1>2. PICK c \in Nat : c = Cardinality(set) /\ IsFiniteSet(set)
  BY AheadCounts
<1>3. PICK f : f = [i \in set |-> Cardinality(Ahead(set, rank, i))]
  OBVIOUS
<1>4. f \in [set -> 0..(c - 1)]
  BY <1>2, <1>3, AheadCounts
<1>5. ASSUME NEW i \in set, NEW j \in set, f[i] = f[j] PROVE i = j
  <2> SUFFICES ASSUME i # j PROVE FALSE
    OBVIOUS
  <2>1. Before(rank, i, j) \/ Before(rank, j, i)
    BY OrderTotal
  <2>2. f[i] < f[j] \/ f[j] < f[i]
    BY <1>3, <2>1, AheadCounts
  <2>3. f[i] \in Nat /\ f[j] \in Nat
    BY <1>2, <1>4
  <2> QED
    BY <1>5, <2>2, <2>3
<1>6. f \in Injection(set, 0..(c - 1))
  BY <1>4, <1>5 DEF Injection, IsInjective
<1>7. IsFiniteSet(0..(c - 1)) /\ Cardinality(0..(c - 1)) = c
  BY <1>2, Counting
<1>8. f \in Surjection(set, 0..(c - 1))
  BY <1>2, <1>6, <1>7, FS_Injection
<1>9. PICK some : some = First(n, set, rank)
  OBVIOUS
<1>10. some = {i \in set : f[i] < n}
  BY <1>1, <1>3, <1>9
<1>11. ASSUME n <= c PROVE Cardinality(some) = n
  <2>1. PICK g : g = [i \in some |-> f[i]]
    OBVIOUS
  <2>2. \A i \in some : g[i] = f[i] /\ f[i] \in 0..(c - 1) /\ f[i] < n
    BY <1>4, <1>10, <2>1
  <2>3. g \in [some -> 0..(n - 1)]
    BY <1>2, <2>1, <2>2
  <2>4. \A i, j \in some : g[i] = g[j] => i = j
    BY <1>5, <1>10, <2>2
  <2>5. g \in Injection(some, 0..(n - 1))
    BY <2>3, <2>4 DEF Injection, IsInjective
  <2>6. ASSUME NEW k \in 0..(n - 1) PROVE \E i \in some : g[i] = k
    <3>1. k \in 0..(c - 1) /\ k < n
      BY <1>2, <1>11
    <3>2. PICK i \in set : f[i] = k
      BY <1>8, <3>1 DEF Surjection
    <3> QED
      BY <1>10, <2>2, <3>1, <3>2
  <2>7. g \in Surjection(some, 0..(n - 1))
    BY <2>3, <2>6 DEF Surjection
  <2>8. IsFiniteSet(0..(n - 1)) /\ Cardinality(0..(n - 1)) = n
    BY Counting
  <2> QED
    BY <2>5, <2>7, <2>8, FS_Injection
<1>12. ASSUME n >= c PROVE some = set
  <2>1. \A i \in set : f[i] \in 0..(c - 1) /\ f[i] < n
    BY <1>2, <1>4, <1>12
  <2> QED
    BY <1>10, <2>1
<1> QED
  BY <1>1, <1>2, <1>9, <1>11, <1>12

(* A deadline is over if and only if the rank is the first; the rank of    *)
(* the hotlist is the same but for what needs no submission.               *)
LEMMA Ranks ==
  ASSUME FilingInit
  PROVE  /\ DeadlineRank \in [Lines -> Nat] /\ HotRank \in [Lines -> Nat]
         /\ \A i \in Lines : DeadlineRank[i] = 0 <=> DeadlineState(i) = "BREACH"
         /\ \A i \in Lines : HotRank[i] = 0 <=> DeadlineState(i) = "BREACH"
         /\ \A i \in Lines : DeadlineState(i) = "BREACH" <=> RequiresSubmission(i) /\ pile[i].age >= 30
<1>1. \A i \in Lines : DeadlineState(i) \in {"BREACH", "WARNING", "OK"}
  BY DEF DeadlineState
<1>2. \A i \in Lines : DeadlineRank[i] =
         IF DeadlineState(i) = "BREACH" THEN 0 ELSE IF DeadlineState(i) = "WARNING" THEN 1 ELSE 2
  BY <1>1 DEF DeadlineRank
<1>3. \A i \in Lines : HotRank[i] = IF RequiresSubmission(i) THEN DeadlineRank[i] ELSE 3
  BY DEF HotRank
<1>4. DeadlineRank \in [Lines -> Nat] /\ \A i \in Lines : DeadlineRank[i] = 0 <=> DeadlineState(i) = "BREACH"
  <2>1. \A i \in Lines : DeadlineRank[i] \in Nat /\ (DeadlineRank[i] = 0 <=> DeadlineState(i) = "BREACH")
    BY <1>2
  <2>2. DeadlineRank = [i \in Lines |-> DeadlineRank[i]]
    BY DEF DeadlineRank
  <2> QED
    BY <2>1, <2>2
<1>5. \A i \in Lines : DeadlineState(i) = "BREACH" <=> RequiresSubmission(i) /\ pile[i].age >= 30
  BY DEF DeadlineState
<1>6. HotRank \in [Lines -> Nat] /\ \A i \in Lines : HotRank[i] = 0 <=> DeadlineState(i) = "BREACH"
  <2>1. \A i \in Lines : HotRank[i] \in Nat /\ (HotRank[i] = 0 <=> DeadlineState(i) = "BREACH")
    BY <1>3, <1>4, <1>5
  <2>2. HotRank = [i \in Lines |-> HotRank[i]]
    BY DEF HotRank
  <2> QED
    BY <2>1, <2>2
<1> QED
  BY <1>4, <1>5, <1>6

(* An overdue package has only overdue ones ahead, which are older.        *)
LEMMA AheadOfOverdue ==
  ASSUME FilingInit, NEW rank \in [Lines -> Nat], NEW i \in Lines, NEW j \in Lines,
         rank[i] = 0, j = i \/ Before(rank, j, i)
  PROVE  rank[j] = 0 /\ pile[j].age >= pile[i].age
<1>1. rank[j] \in Nat /\ rank[i] \in Nat /\ pile[i].age \in Nat /\ pile[j].age \in Nat
  BY PileTyped
<1> QED
  BY <1>1 DEF Before

(* An overdue package that is not in the queue has as many ahead as the    *)
(* queue takes; so have none of those in the queue, which are ahead of it. *)
LEMMA OverdueIsQueued == ASSUME FilingInit PROVE OverdueQueued
<1> SUFFICES ASSUME NEW all \in BOOLEAN, NEW i \in Lines,
                    DeadlineState(i) = "BREACH", i \notin Queue(all), i <= QueueScan,
                    all \/ ~\E j \in 1..(i - 1) : pile[j].case = pile[i].case
             PROVE  /\ Cardinality(Queue(all)) = QueueLimit
                    /\ \A j \in Queue(all) : DeadlineState(j) = "BREACH" /\ pile[j].age >= pile[i].age
  <2>1. \A k \in Lines : k <= QueueScan \/ k > QueueScan
    BY PileTyped, QueueAssumption
  <2> QED
    BY <2>1 DEF OverdueQueued
<1>1. PICK set : set = Listed(QueueScan, all)
  OBVIOUS
<1>2. set \in SUBSET Lines /\ i \in set
  BY <1>1 DEF Listed
<1>3. PICK rank \in [Lines -> Nat] : rank = DeadlineRank
  BY Ranks
<1>4. Queue(all) = First(QueueLimit, set, rank) /\ QueueLimit \in Nat
  BY <1>1, <1>3, QueueAssumption DEF Queue
<1>5. Queue(all) = {j \in set : Cardinality(Ahead(set, rank, j)) < QueueLimit}
  BY <1>2, <1>4, FirstCounts
<1>6. \A j \in set : Cardinality(Ahead(set, rank, j)) \in 0..(Cardinality(set) - 1)
  BY <1>2, AheadCounts
<1>7. PICK m \in Nat : m = Cardinality(Ahead(set, rank, i))
  BY <1>2, <1>6
<1>8. PICK c \in Nat : c = Cardinality(set)
  BY <1>2, AheadCounts
<1>9. m >= QueueLimit /\ m < c
  BY <1>2, <1>4, <1>5, <1>6, <1>7, <1>8
<1>10. Cardinality(Queue(all)) = QueueLimit
  BY <1>2, <1>4, <1>8, <1>9, FirstCounts
<1>11. ASSUME NEW j \in Queue(all) PROVE DeadlineState(j) = "BREACH" /\ pile[j].age >= pile[i].age
  <2>1. j \in set /\ j \in Lines /\ Cardinality(Ahead(set, rank, j)) < QueueLimit
    BY <1>2, <1>5
  <2>2. PICK l \in Nat : l = Cardinality(Ahead(set, rank, j))
    BY <1>6, <2>1
  <2>3. ~Before(rank, i, j)
    <3> SUFFICES ASSUME Before(rank, i, j) PROVE FALSE
      OBVIOUS
    <3>1. Cardinality(Ahead(set, rank, i)) < Cardinality(Ahead(set, rank, j))
      BY <1>2, <2>1, AheadCounts
    <3> QED
      BY <1>4, <1>7, <1>9, <2>1, <2>2, <3>1
  <2>4. j = i \/ Before(rank, j, i)
    BY <1>2, <2>1, <2>3, OrderTotal
  <2>5. rank[i] = 0
    BY <1>3, Ranks
  <2>6. rank[j] = 0 /\ pile[j].age >= pile[i].age
    BY <2>1, <2>4, <2>5, AheadOfOverdue
  <2> QED
    BY <1>3, <2>1, <2>6, Ranks
<1> QED
  BY <1>10, <1>11

(* The hotlist of n lines, when it lists the actionable ones.              *)
LEMMA HotlistIsFirst ==
  ASSUME FilingInit, NEW all \in BOOLEAN, NEW n \in Nat
  PROVE  /\ Actionable(all) \in SUBSET Lines /\ HotRank \in [Lines -> Nat]
         /\ Hotlist(n, all) = First(n, Actionable(all), HotRank)
<1>1. Actionable(all) \in SUBSET Lines
  BY DEF Actionable, Listed
<1> QED
  BY <1>1, Ranks DEF Hotlist

(* Every line of the hotlist has one thing to be done, so that there are   *)
(* as many as the overview counts of either kind.                          *)
LEMMA SameWork ==
  ASSUME FilingInit, NEW all \in BOOLEAN
  PROVE  Cardinality(Hotlist(Len(pile), all)) = Overview(all).submissions + Overview(all).protocols
<1>1. PICK set : set = Listed(Len(pile), all)
  OBVIOUS
<1>2. PICK hot : hot = Actionable(all)
  OBVIOUS
<1>3. PICK P : P = {i \in set : RequiresSubmission(i)}
  OBVIOUS
<1>4. PICK Q : Q = {i \in set : MissingProtocol(i)}
  OBVIOUS
<1>5. Overview(all).submissions = Cardinality(P) /\ Overview(all).protocols = Cardinality(Q)
  BY <1>1, <1>3, <1>4 DEF Overview
<1>6. set \in SUBSET Lines /\ hot \in SUBSET Lines
  BY <1>1, <1>2, HotlistIsFirst DEF Listed
<1>7. P \cup Q = hot
  BY <1>1, <1>2, <1>3, <1>4 DEF Actionable
<1>8. P \cap Q = {}
  BY <1>3, <1>4 DEF RequiresSubmission, MissingProtocol
<1>9. IsFiniteSet(P) /\ IsFiniteSet(Q)
  BY <1>3, <1>4, <1>6, PileTyped, FS_Subset
<1>10. Cardinality(P) \in Nat /\ Cardinality(Q) \in Nat
  BY <1>9, FS_CardinalityType
<1>11. Cardinality(hot) = Cardinality(P) + Cardinality(Q)
  <2>1. Cardinality(P \cup Q) = Cardinality(P) + Cardinality(Q) - Cardinality(P \cap Q)
    BY <1>9, FS_Union
  <2>2. PICK z \in Nat : z = Cardinality(P \cap Q) /\ z = 0
    BY <1>8, FS_EmptySet
  <2>3. PICK p \in Nat : p = Cardinality(P)
    BY <1>10
  <2>4. PICK q \in Nat : q = Cardinality(Q)
    BY <1>10
  <2>5. Cardinality(hot) = p + q - z
    BY <1>7, <2>1, <2>2, <2>3, <2>4
  <2>6. p + q - z = p + q
    BY <2>2
  <2> QED
    BY <2>3, <2>4, <2>5, <2>6
<1>12. Hotlist(Len(pile), all) = hot
  <2>1. Len(pile) \in Nat /\ Cardinality(Lines) = Len(pile) /\ IsFiniteSet(Lines)
    BY PileTyped
  <2>2. Cardinality(hot) <= Cardinality(Lines)
    BY <1>6, <2>1, FS_Subset
  <2>3. Cardinality(hot) \in Nat
    BY <1>10, <1>11
  <2>4. Len(pile) >= Cardinality(hot)
    BY <2>1, <2>2, <2>3
  <2>5. HotRank \in [Lines -> Nat] /\ Hotlist(Len(pile), all) = First(Len(pile), hot, HotRank)
    BY <1>2, <2>1, HotlistIsFirst
  <2> QED
    BY <1>6, <2>1, <2>4, <2>5, FirstCounts
<1> QED
  BY <1>5, <1>11, <1>12

(* The overdue lines.                                                      *)
Overdue(all) == {i \in Listed(Len(pile), all) : DeadlineState(i) = "BREACH"}

(* They are all actionable, and the overview counts them.                  *)
LEMMA OverdueIsActionable ==
  ASSUME FilingInit, NEW all \in BOOLEAN
  PROVE  /\ Overdue(all) = {i \in Actionable(all) : DeadlineState(i) = "BREACH"}
         /\ IsFiniteSet(Overdue(all)) /\ Cardinality(Overdue(all)) \in Nat
         /\ Overview(all).breaches = Cardinality(Overdue(all))
<1>1. Overdue(all) = {i \in Actionable(all) : DeadlineState(i) = "BREACH"}
  BY Ranks DEF Overdue, Actionable, Listed
<1>2. Overdue(all) \in SUBSET Lines
  BY DEF Overdue, Listed
<1>3. IsFiniteSet(Overdue(all))
  BY <1>2, PileTyped, FS_Subset
<1>4. Cardinality(Overdue(all)) \in Nat
  BY <1>3, FS_CardinalityType
<1> QED
  BY <1>1, <1>3, <1>4 DEF Overview, Overdue

(* Fewer are ahead of an overdue line than there are overdue lines.        *)
LEMMA OverdueFirst ==
  ASSUME FilingInit, NEW all \in BOOLEAN, NEW n \in Nat, n >= Overview(all).breaches
  PROVE  {i \in Hotlist(n, all) : DeadlineState(i) = "BREACH"} = Overdue(all)
<1>1. PICK set \in SUBSET Lines : set = Actionable(all)
  BY HotlistIsFirst
<1>2. PICK rank \in [Lines -> Nat] : rank = HotRank
  BY HotlistIsFirst
<1>3. PICK late : late = Overdue(all)
  OBVIOUS
<1>4. Hotlist(n, all) = {i \in set : Cardinality(Ahead(set, rank, i)) < n}
  BY <1>1, <1>2, HotlistIsFirst, FirstCounts
<1>5. /\ late = {i \in set : DeadlineState(i) = "BREACH"}
      /\ IsFiniteSet(late) /\ Cardinality(late) \in Nat /\ n >= Cardinality(late)
  BY <1>1, <1>3, OverdueIsActionable
<1>6. ASSUME NEW i \in late PROVE Cardinality(Ahead(set, rank, i)) < n
  <2>1. i \in set /\ rank[i] = 0
    BY <1>2, <1>5, Ranks
  <2>2. PICK S : S = Ahead(set, rank, i)
    OBVIOUS
  <2>3. ASSUME NEW j \in S PROVE j \in late
    <3>1. j \in set /\ Before(rank, j, i)
      BY <2>2, <2>3 DEF Ahead
    <3>2. rank[j] = 0
      BY <2>1, <3>1, AheadOfOverdue
    <3> QED
      BY <1>2, <1>5, <3>1, <3>2, Ranks
  <2>4. i \notin S
    BY <2>1, <2>2, OrderTotal DEF Ahead
  <2>5. S \in SUBSET late /\ S # late
    BY <2>3, <2>4
  <2>6. Cardinality(S) <= Cardinality(late) /\ Cardinality(S) # Cardinality(late) /\ IsFiniteSet(S)
    BY <1>5, <2>5, FS_Subset
  <2>7. Cardinality(S) \in Nat
    BY <2>6, FS_CardinalityType
  <2> QED
    BY <1>5, <2>2, <2>6, <2>7
<1> QED
  BY <1>3, <1>4, <1>5, <1>6

(* A set of numbers that has a bound has its Max.                          *)
LEMMA MaxIsGreatest ==
  ASSUME NEW S, S \subseteq Nat, NEW x \in S, \A y \in S : y <= x PROVE Max(S) = x
<1>1. \E z \in S : \A y \in S : z >= y
  OBVIOUS
<1>2. PICK z \in S : z = Max(S) /\ \A y \in S : z >= y
  BY <1>1 DEF Max
<1> QED
  BY <1>2

(* The first line of the hotlist is the oldest that is to be submitted.    *)
LEMMA OldestFirst ==
  ASSUME FilingInit, NEW all \in BOOLEAN, Overview(all).breaches > 0
  PROVE  \E i \in Hotlist(1, all) : pile[i].age = Overview(all).oldest
<1>1. PICK set \in SUBSET Lines : set = Actionable(all)
  BY HotlistIsFirst
<1>2. PICK rank \in [Lines -> Nat] : rank = HotRank
  BY HotlistIsFirst
<1>3. PICK pending : pending = {i \in Listed(Len(pile), all) : RequiresSubmission(i)}
  OBVIOUS
<1>4. PICK late \in Overdue(all) : TRUE
  <2>1. Cardinality(Overdue(all)) # 0
    BY OverdueIsActionable
  <2> QED
    BY <2>1, FS_EmptySet
<1>5. late \in set /\ rank[late] = 0 /\ late \in pending
  BY <1>1, <1>2, <1>3, <1>4, OverdueIsActionable, Ranks DEF Overdue
<1>6. PICK c \in Nat : c = Cardinality(set) /\ IsFiniteSet(set)
  BY <1>1, AheadCounts
<1>7. c >= 1
  BY <1>5, <1>6, FS_EmptySet
<1>8. Hotlist(1, all) = {i \in set : Cardinality(Ahead(set, rank, i)) < 1}
  BY <1>1, <1>2, HotlistIsFirst, FirstCounts
<1>9. Cardinality(Hotlist(1, all)) = 1
  BY <1>1, <1>2, <1>6, <1>7, HotlistIsFirst, FirstCounts
<1>10. PICK i \in Hotlist(1, all) : TRUE
  BY <1>9, FS_EmptySet
<1>11. i \in set /\ i \in Lines /\ Cardinality(Ahead(set, rank, i)) < 1
  BY <1>8, <1>10
<1>12. Ahead(set, rank, i) = {}
  <2>1. PICK S : S = Ahead(set, rank, i)
    OBVIOUS
  <2>2. S \in SUBSET set
    BY <2>1 DEF Ahead
  <2>3. IsFiniteSet(S)
    BY <1>6, <2>2, FS_Subset
  <2>4. Cardinality(S) \in Nat /\ Cardinality(S) < 1
    BY <1>11, <2>1, <2>3, FS_CardinalityType
  <2> QED
    BY <2>1, <2>3, <2>4, FS_EmptySet
<1>13. \A j \in set : j = i \/ Before(rank, i, j)
  BY <1>11, <1>12, OrderTotal DEF Ahead
<1>14. rank[i] = 0 /\ DeadlineState(i) = "BREACH"
  <2>1. rank[i] = 0
    BY <1>5, <1>11, <1>13, AheadOfOverdue
  <2> QED
    BY <1>2, <1>11, <2>1, Ranks
<1>15. i \in pending /\ pile[i].age >= 30
  BY <1>1, <1>3, <1>11, <1>14, Ranks DEF Actionable
<1>16. ASSUME NEW j \in pending PROVE pile[j].age <= pile[i].age
  <2>1. j \in set /\ j \in Lines /\ pile[j].age \in Nat /\ pile[i].age \in Nat
    BY <1>1, <1>3, <1>11, PileTyped DEF Actionable
  <2>2. CASE DeadlineState(j) = "BREACH"
    <3>1. rank[j] = 0 /\ rank[i] = 0
      BY <1>2, <1>14, <2>1, <2>2, Ranks
    <3>2. j = i \/ Before(rank, i, j)
      BY <1>13, <2>1
    <3> QED
      BY <1>11, <2>1, <3>1, <3>2, AheadOfOverdue
  <2>3. CASE DeadlineState(j) # "BREACH"
    <3>1. RequiresSubmission(j)
      BY <1>3
    <3>2. ~(pile[j].age >= 30)
      BY <2>1, <2>3, <3>1, Ranks
    <3> QED
      BY <1>15, <2>1, <3>2
  <2> QED
    BY <2>2, <2>3
<1>17. PICK ages : ages = {pile[j].age : j \in pending}
  OBVIOUS
<1>18. ages \subseteq Nat /\ pile[i].age \in ages /\ \A y \in ages : y <= pile[i].age
  <2>1. \A j \in pending : pile[j].age \in Nat
    BY <1>3, PileTyped DEF Listed
  <2> QED
    BY <1>15, <1>16, <1>17, <2>1
<1>19. Max(ages) = pile[i].age
  BY <1>18, MaxIsGreatest
<1>20. Overview(all).oldest = Max(ages)
  BY <1>3, <1>15, <1>17 DEF Overview
<1> QED
  BY <1>10, <1>19, <1>20

(* The three readings of the desk agree.                                   *)
LEMMA ViewsOfDeskAgree == ASSUME FilingInit PROVE ViewsAgree
<1> SUFFICES ASSUME NEW all \in BOOLEAN
             PROVE  /\ Cardinality(Hotlist(Len(pile), all)) = Overview(all).submissions + Overview(all).protocols
                    /\ \A n \in Lines :
                         \/ n < Overview(all).breaches
                         \/ Cardinality({i \in Hotlist(n, all) : DeadlineState(i) = "BREACH"}) = Overview(all).breaches
                    /\ Overview(all).breaches > 0 =>
                         \E i \in Hotlist(1, all) : pile[i].age = Overview(all).oldest
  BY DEF ViewsAgree
<1>1. ASSUME NEW n \in Lines, ~(n < Overview(all).breaches)
      PROVE  Cardinality({i \in Hotlist(n, all) : DeadlineState(i) = "BREACH"}) = Overview(all).breaches
  <2>1. n \in Nat /\ Overview(all).breaches \in Nat
    BY PileTyped, OverdueIsActionable
  <2>2. {i \in Hotlist(n, all) : DeadlineState(i) = "BREACH"} = Overdue(all)
    BY <1>1, <2>1, OverdueFirst
  <2> QED
    BY <2>2, OverdueIsActionable
<1> QED
  BY <1>1, SameWork, OldestFirst

(* For any sharing of elements, any packages and any lists the API answers *)
(* what the tables say.                                                    *)
THEOREM AnswersAreSound == AnswersInit => AnswersSound
BY NetworkNodes, NetworkEdges, OverdueIsQueued, ViewsOfDeskAgree, ListedAreFound, LessFinds
   DEF AnswersInit, AnswersSound
================================================================================
