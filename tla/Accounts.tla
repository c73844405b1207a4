------------------------------- MODULE Accounts -------------------------------
(***************************************************************************)
(* Who may call the API: registration and login (api/routes/auth.py,        *)
(* services/auth), the bearer tokens (services/auth/tokens.py), and the     *)
(* dependency every protected route begins with (api/deps.py).  The user is  *)
(* read in a session that is closed before the handler runs, and nothing    *)
(* is read again; roles, activity and the rows themselves are changed by    *)
(* hand, for no route does it.                                             *)
(***************************************************************************)
EXTENDS Integers

CONSTANTS
    People,     \* who may register; the password is the person's own
    Addresses,  \* lower-case email addresses
    UserIds,    \* primary keys
    NoUser,
    Settings, NotANumber,   \* values of JWT_EXPIRE_MINUTES
    DefaultMinutes, MaxMinutes,
    Providers,  \* values of AUTH_PROVIDER
    MaxClock,   \* bound: minutes of a behaviour
    MaxByHand   \* bound: changes made by hand

ASSUME AccountsAssumption ==
    /\ Settings \ {NotANumber} \subseteq Int /\ DefaultMinutes \in 1..MaxMinutes
    /\ MaxMinutes \in Nat /\ MaxClock \in Nat /\ MaxByHand \in Nat

VARIABLES
    users,      \* [UserIds -> committed row, or none]
    ids,        \* ids given out so far
    tokens,     \* tokens given out so far
    clock,
    setting, provider,   \* the environment of the process
    call,       \* a request under way
    byHand

accountVars == <<users, ids, tokens, clock, setting, provider, call, byHand>>

Roles == {"viewer", "analyst", "admin"}
UserRows == [email : Addresses, secret : People, role : Roles, is_active : BOOLEAN]
ASSUME NoUserAssumption == NoUser \notin UserRows

Tokens == [sub : UserIds, holder : People, iat : Nat, exp : Nat]
(* An address as it is typed. *)
Typed == [address : Addresses, capitals : BOOLEAN]

(* The roles routes ask for: require_roles(ADMIN), (ANALYST, ADMIN), any.   *)
Guards == {{"admin"}, {"analyst", "admin"}, Roles}
NoCall == [stage |-> "none"]

(* body.email.lower(), at registration and at login. *)
Lower(typed) == [typed EXCEPT !.capitals = FALSE]

(* The rows of an address: stored addresses are lower-case.                 *)
UsersOf(typed) == {i \in UserIds : users[i] # NoUser /\ ~typed.capitals /\ users[i].email = typed.address}

(* JWT_EXPIRE_MINUTES: clamped to 1.._MAX_EXPIRE_MINUTES. *)
ExpireMinutes ==
    IF setting = NotANumber THEN DefaultMinutes
    ELSE IF setting < 1 THEN 1 ELSE IF setting > MaxMinutes THEN MaxMinutes ELSE setting

------------------------------------------------------------------------------
(* POST /auth/register: the unique index decides between two at once; the   *)
(* loser is answered 409.                                                  *)
Register(p, typed) ==
    /\ UsersOf(Lower(typed)) = {}
    /\ \E i \in UserIds \ ids :
         /\ users' = [users EXCEPT ![i] = [email |-> Lower(typed).address, secret |-> p,
                                            role |-> "viewer", is_active |-> TRUE]]
         /\ ids' = ids \cup {i}
    /\ UNCHANGED <<tokens, clock, setting, provider, call, byHand>>

(* authenticate_user, for the local provider; the stub verifies nobody.     *)
Verified(p, typed) ==
    {i \in UsersOf(Lower(typed)) : provider = "local" /\ users[i].is_active /\ users[i].secret = p}

Login(p, typed) ==
    /\ \E i \in Verified(p, typed) :
         tokens' = tokens \cup {[sub |-> i, holder |-> p, iat |-> clock, exp |-> clock + ExpireMinutes]}
    /\ UNCHANGED <<users, ids, clock, setting, provider, call, byHand>>

------------------------------------------------------------------------------
(* A call with a token to a route with a guard: decode_access_token first.  *)
(* `earned`: at some moment since then the holder's own account was active   *)
(* and had one of the roles.                                               *)
Entitled(user, t, guard) ==
    user # NoUser /\ user.is_active /\ user.role \in guard /\ user.secret = t.holder

Arrive(t, guard) ==
    /\ call = NoCall /\ clock < t.exp
    /\ call' = [stage |-> "decoded", token |-> t, guard |-> guard, at |-> clock,
                 earned |-> Entitled(users[t.sub], t, guard)]
    /\ UNCHANGED <<users, ids, tokens, clock, setting, provider, byHand>>

(* MUTANT of Found: by who the holder is, not by the key of the row.       *)
FoundByHolder(t) == {i \in UserIds : users[i] # NoUser /\ users[i].secret = t.holder}

(* get_user_by_id.  (An id is not given out again.) *)
Found(t) == {i \in UserIds : users[i] # NoUser /\ i = t.sub}

(* get_current_user: 401 unless the row is there and active; the session    *)
(* is closed on return.                                                    *)
GetCurrentUser ==
    /\ call.stage = "decoded"
    /\ \E i \in Found(call.token) :
         /\ users[i].is_active
         /\ call' = [stage |-> "known", token |-> call.token, guard |-> call.guard, at |-> call.at,
                      earned |-> call.earned, role |-> users[i].role]
    /\ UNCHANGED <<users, ids, tokens, clock, setting, provider, byHand>>

(* require_roles: the role of the copy. *)
CheckRole ==
    /\ call.stage = "known" /\ call.role \in call.guard
    /\ call' = [call EXCEPT !.stage = "running"]
    /\ UNCHANGED <<users, ids, tokens, clock, setting, provider, byHand>>

Refuse ==
    /\ \/ call.stage = "decoded" /\ ~\E i \in Found(call.token) : users[i].is_active
       \/ call.stage = "known" /\ call.role \notin call.guard
    /\ call' = NoCall
    /\ UNCHANGED <<users, ids, tokens, clock, setting, provider, byHand>>

Answer ==
    /\ call.stage = "running"
    /\ call' = NoCall
    /\ UNCHANGED <<users, ids, tokens, clock, setting, provider, byHand>>

------------------------------------------------------------------------------
(* The role or the activity of a row is set, or the row deleted, by hand;   *)
(* time passes.                                                            *)
Noticed == call' = IF "earned" \in DOMAIN call
                    THEN [call EXCEPT !.earned = @ \/ Entitled(users'[call.token.sub], call.token, call.guard)] ELSE call

ChangeByHand(i) ==
    /\ users[i] # NoUser /\ byHand < MaxByHand
    /\ \/ \E r \in Roles, a \in BOOLEAN : users' = [users EXCEPT ![i].role = r, ![i].is_active = a]
       \/ users' = [users EXCEPT ![i] = NoUser]
    /\ byHand' = byHand + 1
    /\ UNCHANGED <<ids, tokens, clock, setting, provider>>
    /\ Noticed

Tick ==
    /\ clock < MaxClock
    /\ clock' = clock + 1
    /\ UNCHANGED <<users, ids, tokens, setting, provider, call, byHand>>

AccountsTypeOK ==
    /\ users \in [UserIds -> UserRows \cup {NoUser}] /\ ids \subseteq UserIds
    /\ \A i \in UserIds \ ids : users[i] = NoUser
    /\ tokens \subseteq Tokens /\ \A t \in tokens : t.exp - t.iat \in 1..MaxMinutes
    /\ clock \in 0..MaxClock
    /\ setting \in Settings /\ provider \in Providers
    /\ call.stage \in {"none", "decoded", "known", "running"} /\ byHand \in 0..MaxByHand

AccountsInit ==
    /\ users = [i \in UserIds |-> NoUser] /\ ids = {} /\ tokens = {} /\ clock = 0
    /\ setting \in Settings /\ provider \in Providers
    /\ call = NoCall /\ byHand = 0

AccountsNext ==
    \/ \E p \in People, typed \in Typed : Register(p, typed) \/ Login(p, typed)
    \/ \E t \in tokens, guard \in Guards : Arrive(t, guard)
    \/ GetCurrentUser \/ CheckRole \/ Refuse \/ Answer
    \/ \E i \in UserIds : ChangeByHand(i)
    \/ Tick

AccountsSpec == AccountsInit /\ [][AccountsNext]_accountVars

(***************************************************************************)
(* A handler runs for a person only if, at some moment since the call       *)
(* arrived, the account they logged in to was theirs, active and had a role *)
(* the route asks for, and the login is at most MaxMinutes old: deletion,    *)
(* demotion or another account for the same address leave an old token      *)
(* nothing.  There is one account for an address, however it is typed.     *)
(***************************************************************************)
AccessIsEarned ==
    /\ call.stage = "running" =>
         /\ call.earned /\ call.at - call.token.iat < MaxMinutes
    /\ \A i, j \in UserIds :
         users[i] # NoUser /\ users[j] # NoUser /\ users[i].email = users[j].email => i = j
=============================================================================
