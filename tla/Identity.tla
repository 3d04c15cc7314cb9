------------------------------ MODULE Identity ------------------------------
(***************************************************************************)
(* backend/services/identity_service.py: usernames, receive tags, devices  *)
(* and login nonces, with the endpoint that also opens a ledger account.   *)
(* A tag is eight random characters that nobody compares with the tags and *)
(* names in use, so Tags may repeat and may overlap Usernames.             *)
(***************************************************************************)
EXTENDS Ledger

CONSTANTS
  Spelled,         \* identifiers as the callers write them
  Canonical,       \* Spelled -> names and tags: lower() and strip("@")
  Usernames,       \* canonical names register accepts: well-formed, not reserved
  Tags,            \* tags _generate_tag can draw
  AccountOf,       \* the account of a name: user_<hash of the name and its wallet>
  DevicesPerName,  \* devices registered under one name (bound)
  NonceLimit       \* nonces handed out in a behaviour (bound)

ASSUME IdentityAssumption ==
  /\ Canonical \in [Spelled -> Usernames \cup Tags]
  /\ AccountOf \in [Usernames -> Accounts \ DOMAIN Wired]
  /\ \A u, v \in Usernames : AccountOf[u] = AccountOf[v] => u = v
  /\ "btc" \in LedgerAssets
  /\ DevicesPerName \in Nat
  /\ NonceLimit \in Nat

VARIABLES
  users,     \* _users: the receive_tag of each
  tags,      \* _tags
  devices,   \* _devices: of each name ever used, whether each device is revoked
  nonces     \* _nonces of one wallet: [current, 0 for none; given out so far]

identityVars == <<users, tags, devices, nonces>>

IdentityTypeOK ==
  /\ DOMAIN users \subseteq Usernames
  /\ \A u \in DOMAIN users : users[u] \in Tags
  /\ DOMAIN tags \subseteq Tags
  /\ \A t \in DOMAIN tags : tags[t] \in DOMAIN users
  /\ devices \in [Usernames \cup Tags -> Seq(BOOLEAN)]
  /\ nonces \in [current : Nat, given : Nat]

IdentityInit ==
  /\ users = [u \in {} |-> u]
  /\ tags = [t \in {} |-> t]
  /\ devices = [n \in Usernames \cup Tags |-> <<>>]
  /\ nonces = [current |-> 0, given |-> 0]

-----------------------------------------------------------------------------
With(f, x, y) == [z \in DOMAIN f \cup {x} |-> IF z = x THEN y ELSE f[z]]

Without(f, x) == [z \in DOMAIN f \ {x} |-> f[z]]

\* register, then the endpoint's create_account (which keeps an account it has).
Register(name, tag) ==
  LET u == Canonical[name] IN
  /\ u \in Usernames \ DOMAIN users
  /\ users' = With(users, u, tag)
  /\ tags' = With(tags, tag, u)
  /\ IF AccountOf[u] \in DOMAIN accounts THEN UNCHANGED ledgerVars
     ELSE CreateAccount(AccountOf[u], "user", "btc")
  /\ UNCHANGED <<devices, nonces>>

\* Mutant of Retired: the old tag stays in the map.
NotRetired(u) == tags

\* The tag shown by u leaves the map, even when a later user drew the same one.
Retired(u) == IF users[u] \in DOMAIN tags THEN Without(tags, users[u]) ELSE tags

RotateTag(name, tag) ==
  LET u == Canonical[name] IN
  /\ u \in DOMAIN users
  /\ tags' = With(Retired(u), tag, u)
  /\ users' = [users EXCEPT ![u] = tag]
  /\ UNCHANGED <<devices, nonces, ledgerVars>>

\* Devices are filed under any name, registered or not.
RegisterDevice(name) ==
  LET n == Canonical[name] IN
  /\ Len(devices[n]) < DevicesPerName
  /\ devices' = [devices EXCEPT ![n] = Append(@, FALSE)]
  /\ UNCHANGED <<users, tags, nonces, ledgerVars>>

RevokeDevice(name, d) ==
  LET n == Canonical[name] IN
  /\ d \in DOMAIN devices[n]
  /\ devices' = [devices EXCEPT ![n][d] = TRUE]
  /\ UNCHANGED <<users, tags, nonces, ledgerVars>>

GenerateNonce ==
  /\ nonces.given < NonceLimit
  /\ nonces' = [current |-> nonces.given + 1, given |-> nonces.given + 1]
  /\ UNCHANGED <<users, tags, devices, ledgerVars>>

VerifyNonce(nonce) ==
  /\ nonces.current = nonce
  /\ nonces' = [nonces EXCEPT !.current = 0]
  /\ UNCHANGED <<users, tags, devices, ledgerVars>>

IdentityNext ==
  \/ \E name \in Spelled :
       \/ \E tag \in Tags : Register(name, tag) \/ RotateTag(name, tag)
       \/ RegisterDevice(name)
       \/ \E d \in 1..DevicesPerName : RevokeDevice(name, d)
  \/ GenerateNonce
  \/ \E nonce \in 1..NonceLimit : VerifyNonce(nonce)

-----------------------------------------------------------------------------
\* A name wins over a tag spelled like it.
Resolve(name) ==
  LET key == Canonical[name]
  IN CASE key \in DOMAIN users -> [user |-> key, tag |-> users[key]]
       [] key \notin DOMAIN users /\ key \in DOMAIN tags -> [user |-> tags[key], tag |-> key]

Resolvable == {name \in Spelled : Canonical[name] \in DOMAIN users \cup DOMAIN tags}

\* What an identifier resolves to is a user who shows that very tag now: a tag
\* that was rotated away, or that a second user drew, leads nobody to a former
\* holder (resolve, identity_service.py:45).
ResolvesToShownTag ==
  \A name \in Resolvable :
    LET found == Resolve(name)
    IN found.user \in DOMAIN users /\ users[found.user] = found.tag
=============================================================================
