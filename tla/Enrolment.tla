------------------------------ MODULE Enrolment -------------------------------
(***************************************************************************)
(* How a node gets its identity: liteway-cert writes the CA and node files *)
(* (liteway-cert/src/main.rs, liteway-core/src/cert.rs), the daemon reads  *)
(* them when it starts (litewayd/src/main.rs, main).                       *)
(*                                                                         *)
(* Both commands overwrite the public file and then refuse to overwrite    *)
(* the private one, so that a command that fails leaves files that do not  *)
(* belong together.  A key pair is a number that is never used again.      *)
(***************************************************************************)
EXTENDS Certificates, FiniteSets

CONSTANTS
    Node,        \* nodes the operator enrols
    Addresses,   \* what the operator asks for, for each node
    Lifetime,    \* -v, how long a node certificate is valid
    MaxKey,      \* bound: key pairs generated
    MaxTime      \* bound: when the clock stops

ASSUME EnrolmentAssumption ==
    /\ Lifetime \in Nat /\ MaxKey \in Nat /\ MaxTime \in Nat
    /\ \A n \in Node :
           /\ Addresses[n].ip \in Network
           /\ Addresses[n].subnets \in SUBSET Network /\ IsFiniteSet(Addresses[n].subnets)

None == 0   \* no key: the file does not exist, the daemon does not run

VARIABLES
    now,
    nextKey,
    caCert, caKey,       \* the key in the CA certificate and in the CA key file
    certFile, keyFile,   \* each node's files
    daemon               \* each node's daemon: its certificate, key and CA

filesVars == <<caCert, caKey, certFile, keyFile>>
enrolmentVars == <<now, nextKey, filesVars, daemon>>

NoCert == [key |-> None]
Stopped == [cert |-> NoCert, key |-> None, ca |-> None]

(* write_private_file: create_new. *)
WritePrivate(old, new) == IF old = None THEN new ELSE old

(* Mutant: the generator repeats itself. *)
RepeatedKeyPair == nextKey <= MaxKey /\ UNCHANGED nextKey

(* generate_hybrid_keypair, for the key pair nextKey *)
FreshKeyPair == nextKey <= MaxKey /\ nextKey' = nextKey + 1

GenCa ==
    /\ FreshKeyPair
    /\ caCert' = nextKey /\ caKey' = WritePrivate(caKey, nextKey)
    /\ UNCHANGED <<now, certFile, keyFile, daemon>>

(* generate_node: a certificate for a new key pair, valid from now on and  *)
(* signed with the key in the CA key file.                                 *)
NodeCert(n) ==
    [key |-> nextKey, is_ca |-> FALSE, not_before |-> now, not_after |-> now + Lifetime,
     signer |-> caKey, ip |-> Addresses[n].ip, subnets |-> Addresses[n].subnets,
     grants |-> Addresses[n].grants, grantsAll |-> Addresses[n].grantsAll]

GenNode(n) ==
    /\ caKey # None /\ FreshKeyPair
    /\ certFile' = [certFile EXCEPT ![n] = NodeCert(n)]
    /\ keyFile' = [keyFile EXCEPT ![n] = WritePrivate(keyFile[n], nextKey)]
    /\ UNCHANGED <<now, caCert, caKey, daemon>>

(* The operator makes room for a new private key. *)
DeleteKey(n) ==
    /\ keyFile[n] # None
    /\ keyFile' = [keyFile EXCEPT ![n] = None]
    /\ UNCHANGED <<now, nextKey, caCert, caKey, certFile, daemon>>

(* Mutant: the key file is not compared with the certificate. *)
MayStartUnchecked(n) ==
    /\ caCert # None /\ certFile[n] # NoCert /\ keyFile[n] # None
    /\ Verify(certFile[n], caCert, now)

(* main bails out unless the certificate verifies and the key is its own. *)
MayStart(n) ==
    /\ caCert # None /\ certFile[n] # NoCert /\ keyFile[n] # None
    /\ Verify(certFile[n], caCert, now)
    /\ keyFile[n] = certFile[n].key

Start(n) ==
    /\ daemon[n] = Stopped /\ MayStart(n)
    /\ daemon' = [daemon EXCEPT ![n] = [cert |-> certFile[n], key |-> keyFile[n], ca |-> caCert]]
    /\ UNCHANGED <<now, nextKey, filesVars>>

(* The daemon is killed, and tells nobody. *)
Crash(n) ==
    /\ daemon[n] # Stopped
    /\ daemon' = [daemon EXCEPT ![n] = Stopped]
    /\ UNCHANGED <<now, nextKey, filesVars>>

Elapse ==
    /\ now < MaxTime /\ now' = now + 1
    /\ UNCHANGED <<nextKey, filesVars, daemon>>

EnrolmentInit ==
    /\ now = 0 /\ nextKey = 1
    /\ caCert = None /\ caKey = None
    /\ certFile = [n \in Node |-> NoCert] /\ keyFile = [n \in Node |-> None]
    /\ daemon = [n \in Node |-> Stopped]

EnrolmentNext ==
    \/ GenCa \/ Elapse
    \/ \E n \in Node : GenNode(n) \/ DeleteKey(n) \/ Start(n) \/ Crash(n)

EnrolmentSpec == EnrolmentInit /\ [][EnrolmentNext]_enrolmentVars

-------------------------------------------------------------------------------
(* The handshake checks of one end: the other's certificate verifies with  *)
(* the CA it started with, and the handshake is signed with the            *)
(* certificate's key.                                                      *)
Trusts(mine, other) == Verify(other.cert, mine.ca, now) /\ other.key = other.cert.key

Agree(d, e) == Trusts(d, e) /\ Trusts(e, d)

(* Daemons that read the same CA file complete a handshake as long as      *)
(* neither certificate has expired: whatever half-done commands left in    *)
(* the files, main refuses to start with it.                               *)
StartedAgree ==
    \A m, n \in Node :
        LET d == daemon[m]  e == daemon[n] IN
        /\ d # Stopped /\ e # Stopped /\ d.ca = e.ca
        /\ now <= d.cert.not_after /\ now <= e.cert.not_after
        => Agree(d, e)
===============================================================================
