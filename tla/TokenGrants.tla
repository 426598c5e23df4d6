---------------------------- MODULE TokenGrants ----------------------------
(***************************************************************************)
(* The grants of tkauth-01 up to the certificate, under names of their own *)
(* so that they stand beside the other parts.                              *)
(***************************************************************************)
EXTENDS Integers, FiniteSets

CONSTANTS
  Nothing,  \* None of the grants
  Raw, Canon, Types, Orders, Tokens, NoToken, Authorities, AccountKey, Skew, Outlive,
  LastTime  \* bound: the clock of the grants

VARIABLES clock, tokenOrder, authzs, csr, issuance, issued

Grants == INSTANCE AuthorityGrants WITH
  None <- Nothing, MaxTime <- LastTime, now <- clock, order <- tokenOrder, cert <- issued

(* A certificate carries what its tokens attest, and while they do: its    *)
(* names, whether it is a CA certificate, when it was signed and when it   *)
(* ends (checkCSR, checkCAGrants, issuanceAuthorization, checkChain).      *)
CertificateAttested == Grants!TypeOK /\ Grants!CertificateAttested
=============================================================================
