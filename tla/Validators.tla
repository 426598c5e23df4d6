----------------------------- MODULE Validators -----------------------------
(***************************************************************************)
(* What a validation does outside the Store, in two parts that share no    *)
(* state: the lookup of dns-01 and the connections of http-01 and          *)
(* tls-alpn-01.                                                            *)
(***************************************************************************)
EXTENDS Integers, Sequences, FiniteSets

CONSTANTS
  Absent,   \* None of the lookup
  Names, Question, Values, Digest, Records, Servers, Timeout, MaxCNAMEs,
  Hosts, BadHosts, Identifiers, Addresses, Public, Allowed, Answers, Ports, TestPort,
  MaxRedirects, MaxAddresses

VARIABLES
  elapsed, zone, pc, trace, answers, index, until, last, outcome, heard, evidence,
  kind, stage, target, requests, port, pending, verdict, dialled, refuted

Dns == INSTANCE DnsLookup WITH None <- Absent, now <- elapsed
Http == INSTANCE HttpValidation WITH pc <- stage

ValidatorsAssumption == Dns!LookupAssumption /\ Http!HttpAssumption

-----------------------------------------------------------------------------
(* The verdict of dns-01 is that of the names: when the servers answer     *)
(* from one zone, the lookup decides as that zone does, whichever of them  *)
(* fail on the way; whatever they answer, a proof lies on the chain of     *)
(* aliases from the question (lookup).                                     *)
DnsVerdict == Dns!TypeOK /\ Dns!DnsVerdict

(* A failure of the network alone never refutes a challenge: in dns-01     *)
(* only answers are final, in the others only what is not an outage        *)
(* (query, retryable).                                                     *)
OutageIsRetried == Dns!OutageIsRetried /\ Http!OutageIsRetried

(* No server uses up the time of the servers after it (query).             *)
EveryServerHasTime == Dns!EveryServerHasTime

(* Every dial of http-01 and tls-alpn-01 goes to an address and a port     *)
(* that the egress policy permits, redirects included (dial, resolve).     *)
DialsPermitted == Http!TypeOK /\ Http!DialsPermitted
=============================================================================
