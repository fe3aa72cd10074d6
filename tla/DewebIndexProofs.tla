-------------------------- MODULE DewebIndexProofs --------------------------
(***************************************************************************)
(* Theorems about the index contract, for any number of websites and       *)
(* owners, and about the index and a website on the same chain.            *)
(***************************************************************************)
EXTENDS DewebIndex, TLAPS

\* The entries have their type, and the two lists agree.
IInv ==
  /\ byAddress \subseteq Addresses \X (Owners \cup {None})
  /\ byOwner \subseteq Owners \X Addresses
  /\ \A o \in Owners, a \in Addresses : <<o, a>> \in byOwner <=> <<a, o>> \in byAddress
  /\ \A e1, e2 \in byAddress : e1[1] = e2[1] => e1 = e2

\* What is left when a website is removed: the lists still agree, and neither
\* holds the website.
LEMMA RemovedAgree ==
  ASSUME IInv, NEW a \in Addresses
  PROVE  /\ AddressesLeft(a) \subseteq byAddress
         /\ OwnersLeft(a) \subseteq byOwner
         /\ \A e \in AddressesLeft(a) : e[1] # a
         /\ \A e \in OwnersLeft(a) : e[2] # a
         /\ \A o \in Owners, b \in Addresses :
              <<o, b>> \in OwnersLeft(a) <=> <<b, o>> \in AddressesLeft(a)
<1>1. AddressesLeft(a) \subseteq byAddress /\ \A e \in AddressesLeft(a) : e[1] # a
  BY DEF AddressesLeft
<1>2. ASSUME NEW e \in byOwner, e[2] = a
      PROVE  e[1] \in OwnersListed(a)
  <2>1. PICK o \in Owners, b \in Addresses : e = <<o, b>>
    BY DEF IInv
  <2>2. b = a /\ <<o, a>> \in byOwner
    BY <1>2, <2>1
  <2>. QED BY <2>1, <2>2 DEF IInv, OwnersListed
<1>3. OwnersLeft(a) = {e \in byOwner : e[2] # a}
  BY <1>2 DEF OwnersLeft
<1>4. ASSUME NEW o \in Owners, NEW b \in Addresses
      PROVE  <<o, b>> \in OwnersLeft(a) <=> <<b, o>> \in AddressesLeft(a)
  <2>1. <<o, b>> \in OwnersLeft(a) <=> <<o, b>> \in byOwner /\ b # a
    BY <1>3
  <2>2. <<b, o>> \in AddressesLeft(a) <=> <<b, o>> \in byAddress /\ b # a
    BY DEF AddressesLeft
  <2>. QED BY <2>1, <2>2 DEF IInv
<1>. QED BY <1>1, <1>3, <1>4

\* The owner that is read is one of Owners, or none.
LEMMA OwnerRead ==
  ASSUME IndexAssumption, NEW a \in Addresses
  PROVE  GetOwnerOf(a) \in Owners \cup {None}
BY DEF IndexAssumption, GetOwnerOf

\* No call makes the two lists disagree.
LEMMA CallsKeepIInv ==
  ASSUME IndexAssumption, IInv, IndexNext
  PROVE  IInv'
<1>1. ASSUME NEW a \in Addresses, UpdateWebsite(a)
      PROVE  IInv'
  <2> DEFINE o == GetOwnerOf(a)
             listed == siteVersion[a]
  <2>0. o \in Owners \cup {None} /\ None \notin Owners
    BY OwnerRead DEF IndexAssumption
  <2>1. byAddress' = AddressesLeft(a) \cup (IF listed THEN {<<a, o>>} ELSE {})
    BY <1>1 DEF UpdateWebsite
  <2>2. byOwner' = OwnersLeft(a) \cup (IF listed /\ o # None THEN {<<o, a>>} ELSE {})
    BY <1>1 DEF UpdateWebsite
  <2> HIDE DEF o, listed
  <2>3. byAddress' \subseteq Addresses \X (Owners \cup {None})
    BY <2>0, <2>1, RemovedAgree DEF IInv
  <2>4. byOwner' \subseteq Owners \X Addresses
    BY <2>0, <2>2, RemovedAgree DEF IInv
  <2>5. ASSUME NEW p \in Owners, NEW b \in Addresses
        PROVE  <<p, b>> \in byOwner' <=> <<b, p>> \in byAddress'
    <3>1. CASE b = a
      <4>1. <<p, a>> \notin OwnersLeft(a) /\ <<a, p>> \notin AddressesLeft(a)
        <5>1. <<p, a>>[2] = a /\ <<a, p>>[1] = a
          OBVIOUS
        <5>. QED BY <5>1, RemovedAgree
      <4>2. <<p, a>> \in byOwner' <=> listed /\ p = o
        BY <2>0, <2>2, <4>1
      <4>3. <<a, p>> \in byAddress' <=> listed /\ p = o
        BY <2>1, <4>1
      <4>. QED BY <3>1, <4>2, <4>3
    <3>2. CASE b # a
      <4>1. <<p, b>> # <<o, a>> /\ <<b, p>> # <<a, o>>
        BY <3>2
      <4>. QED BY <2>1, <2>2, <4>1, RemovedAgree
    <3>. QED BY <3>1, <3>2
  <2>6. ASSUME NEW e1 \in byAddress', NEW e2 \in byAddress', e1[1] = e2[1]
        PROVE  e1 = e2
    <3>1. \A e \in byAddress' : (e \in AddressesLeft(a) /\ e[1] # a) \/ e = <<a, o>>
      BY <2>1, RemovedAgree
    <3>2. <<a, o>>[1] = a
      OBVIOUS
    <3>3. CASE e1[1] = a
      BY <2>6, <3>1, <3>3
    <3>4. CASE e1[1] # a
      <4>1. e1 \in byAddress /\ e2 \in byAddress
        BY <2>6, <3>1, <3>2, <3>4, RemovedAgree
      <4>. QED BY <2>6, <4>1 DEF IInv
    <3>. QED BY <3>3, <3>4
  <2>. QED BY <2>3, <2>4, <2>5, <2>6 DEF IInv
<1>2. ASSUME NEW a \in Addresses, NEW c \in Accounts, RemoveWebsite(c, a)
      PROVE  IInv'
  <2>1. byAddress' = AddressesLeft(a) /\ byOwner' = OwnersLeft(a)
    BY <1>2 DEF RemoveWebsite
  <2>. QED BY <2>1, RemovedAgree DEF IInv
<1>3. ASSUME UNCHANGED listings
      PROVE  IInv'
  BY <1>3 DEF listings, IInv
<1>. QED BY <1>1, <1>2, <1>3 DEF IndexNext, TransferOwnership, UpgradeIndex

LEMMA IInvImpliesAgree == IInv => ListingsAgree
BY DEF IInv, ListingsAgree, OwnersListed

LEMMA IInvHolds ==
  ASSUME IndexAssumption
  PROVE  Spec => []IInv
<1>1. Init => IInv
  BY DEF Init, IndexInit, IInv
<1>2. IInv /\ [Next]_vars => IInv'
  <2> SUFFICES ASSUME IInv, [Next]_vars
               PROVE  IInv'
    OBVIOUS
  <2>1. CASE IndexNext
    BY <2>1, CallsKeepIInv
  <2>2. CASE SitesChange
    BY <2>2 DEF SitesChange, indexVars, IInv
  <2>3. CASE UNCHANGED vars
    BY <2>3 DEF vars, IInv
  <2>. QED BY <2>1, <2>2, <2>3 DEF Next
<1>. QED BY <1>1, <1>2, PTL DEF Spec

\* The list by address and the list by owner always agree.
THEOREM ListingsStayAgree ==
  ASSUME IndexAssumption
  PROVE  Spec => []ListingsAgree
BY IInvHolds, IInvImpliesAgree, PTL
=============================================================================
