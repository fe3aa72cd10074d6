----------------------------- MODULE DewebIndex -----------------------------
(***************************************************************************)
(* The index contract (src/deweb-index/assembly/contracts): it lists each  *)
(* website under its address and under its owner, as a key without value   *)
(* per pair.  It reads the OWNER and DEWEB_VERSION keys of the website's    *)
(* datastore when it is told to update a website, by anyone, and never by  *)
(* itself: the website changes without it.                                 *)
(***************************************************************************)
CONSTANTS
  Addresses,    \* the addresses of the websites
  Accounts,     \* who calls the index
  Owners,       \* the values of an OWNER key
  Listable,     \* those with 1 to OWNER_MAX_LENGTH - 1 characters
  None          \* no OWNER key; as an entry of the index, the empty owner

\* What the theorems assume of the constants.
IndexAssumption ==
  /\ Accounts \subseteq Owners
  /\ Listable \subseteq Owners
  /\ None \notin Owners

VARIABLES
  siteOwner, siteVersion,   \* the keys of the websites that the index reads
  indexCode,                \* the bytecode of the index: this one, or another
  indexOwner,               \* its own OWNER key
  byAddress,                \* the keys WEBSITE_ADDR_TO_OWNER: (address, owner)
  byOwner                   \* the keys INDEX_BY_OWNER: (owner, address)

listings == <<byAddress, byOwner>>
siteKeys == <<siteOwner, siteVersion>>
indexVars == <<indexCode, indexOwner, byAddress, byOwner>>
vars == <<siteOwner, siteVersion, indexCode, indexOwner, byAddress, byOwner>>

TypeOK ==
  /\ siteOwner \in [Addresses -> Owners \cup {None}]
  /\ siteVersion \in [Addresses -> BOOLEAN]
  /\ indexCode \in {"index", "upgraded"}
  /\ indexOwner \in Owners
  /\ byAddress \subseteq Addresses \X (Owners \cup {None})
  /\ byOwner \subseteq Owners \X Addresses

\* The constructor; no website is listed.
IndexInit ==
  /\ indexCode = "index"
  /\ indexOwner \in Accounts
  /\ byAddress = {}
  /\ byOwner = {}

Init ==
  /\ siteOwner \in [Addresses -> Owners \cup {None}]
  /\ siteVersion \in [Addresses -> BOOLEAN]
  /\ IndexInit

-----------------------------------------------------------------------------
(* The calls.  A call whose assertion fails changes nothing.               *)

\* Mutant: the length of the owner is not looked at.
GetOwnerOfAny(a) == siteOwner[a]

GetOwnerOf(a) == IF siteOwner[a] \in Listable THEN siteOwner[a] ELSE None

OwnersListed(a) == {o \in Owners \cup {None} : <<a, o>> \in byAddress}

\* What is left of the two kinds of keys when a is removed: the keys of a, and
\* those of its owners as far as they are recorded there.
AddressesLeft(a) == {e \in byAddress : e[1] # a}
OwnersLeft(a) == {e \in byOwner : ~ (e[2] = a /\ e[1] \in OwnersListed(a))}

\* Mutant: the list of the old owner keeps the website.
UpdateKeepsOwner(a) ==
  /\ indexCode = "index"
  /\ byAddress' = AddressesLeft(a) \cup (IF siteVersion[a] THEN {<<a, GetOwnerOf(a)>>} ELSE {})
  /\ byOwner' = byOwner \cup (IF siteVersion[a] /\ GetOwnerOf(a) # None
                              THEN {<<GetOwnerOf(a), a>>} ELSE {})
  /\ UNCHANGED <<indexCode, indexOwner>>

\* The website is removed, and listed again when it still is one.
UpdateWebsite(a) ==
  /\ indexCode = "index"
  /\ byAddress' = AddressesLeft(a) \cup (IF siteVersion[a] THEN {<<a, GetOwnerOf(a)>>} ELSE {})
  /\ byOwner' = OwnersLeft(a) \cup (IF siteVersion[a] /\ GetOwnerOf(a) # None
                                    THEN {<<GetOwnerOf(a), a>>} ELSE {})
  /\ UNCHANGED <<indexCode, indexOwner>>

OnlyIndexOwner(c) == indexCode = "index" /\ c = indexOwner

RemoveWebsite(c, a) ==
  /\ OnlyIndexOwner(c)
  /\ byAddress' = AddressesLeft(a)
  /\ byOwner' = OwnersLeft(a)
  /\ UNCHANGED <<indexCode, indexOwner>>

\* transferOwnership, and setOwner of the standard library.
TransferOwnership(c, newOwner) ==
  /\ OnlyIndexOwner(c)
  /\ indexOwner' = newOwner
  /\ UNCHANGED <<indexCode, listings>>

\* What the new bytecode does is not modelled.
UpgradeIndex(c) ==
  /\ OnlyIndexOwner(c)
  /\ indexCode' = "upgraded"
  /\ UNCHANGED <<indexOwner, listings>>

IndexNext ==
  \/ \E a \in Addresses : UpdateWebsite(a) \/ \E c \in Accounts : RemoveWebsite(c, a)
  \/ \E c \in Accounts : \/ \E o \in Accounts : TransferOwnership(c, o)
                         \/ UpgradeIndex(c)

\* The websites change by themselves.
SitesChange ==
  /\ siteOwner' \in [Addresses -> Owners \cup {None}]
  /\ siteVersion' \in [Addresses -> BOOLEAN]
  /\ UNCHANGED indexVars

Next == (IndexNext /\ UNCHANGED siteKeys) \/ SitesChange

Spec == Init /\ [][Next]_vars

-----------------------------------------------------------------------------
(* Properties.                                                             *)

\* The two lists agree: an owner's list holds exactly the websites that are
\* listed with that owner, and a website is listed with one owner at most,
\* however often owners change and updates are late or left out.
ListingsAgree ==
  /\ \A o \in Owners, a \in Addresses : <<o, a>> \in byOwner <=> <<a, o>> \in byAddress
  /\ \A a \in Addresses : \A o1, o2 \in OwnersListed(a) : o1 = o2
=============================================================================
