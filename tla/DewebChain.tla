----------------------------- MODULE DewebChain -----------------------------
(***************************************************************************)
(* One website contract and the index contract on the same chain: each     *)
(* call of either one is a step, and the index reads the website's         *)
(* datastore as it is at the time of the call.                             *)
(***************************************************************************)
EXTENDS DewebSite

CONSTANT Address   \* of the website

VARIABLES indexCode, indexOwner, byAddress, byOwner

indexVars == <<indexCode, indexOwner, byAddress, byOwner>>
chainVars == <<code, owner, files, globalMeta, indexCode, indexOwner, byAddress, byOwner>>

\* The version key is written by the constructor and deleted by purge only.
Index == INSTANCE DewebIndex WITH
  Addresses <- {Address},
  Accounts <- Callers,
  Owners <- Callers \cup {Nobody},
  Listable <- Callers,
  siteOwner <- [a \in {Address} |-> owner],
  siteVersion <- [a \in {Address} |-> code # "none"]

ChainInit == Init /\ Index!IndexInit

ChainNext ==
  \/ Next /\ UNCHANGED indexVars
  \/ UNCHANGED vars /\ Index!IndexNext

ChainSpec == ChainInit /\ [][ChainNext]_chainVars

-----------------------------------------------------------------------------
(* Properties.                                                             *)

\* See DewebIndex: the list by address and the list by owner agree.
ListingsAgree == Index!ListingsAgree

\* A website that no account owns, because it was made immutable or purged, and
\* that the index lists under no account is never listed under one again.
DisownedStaysUnlisted ==
  [][ owner \notin Callers /\ byOwner = {} => byOwner' = {} ]_chainVars
=============================================================================
