------------------------ MODULE CredentialDelegation ------------------------
(***************************************************************************)
(* Credential delegation: RequestCredential at one node, the vaults of its *)
(* peers (pkg/mesh/vault) and the control frames between them              *)
(* (api/credential.go, api/control.go).  A call is identified by its nonce,*)
(* drawn at random, so no two calls share one.  Sealing is perfect: a      *)
(* grant opens only with the key of the node it was sealed for, which is   *)
(* the key of every call here, and shows the nonce it was sealed with.     *)
(***************************************************************************)
EXTENDS Integers, Sequences, FiniteSets

CONSTANTS Calls,            \* calls of RequestCredential
          HostOf,           \* HostOf[c]: the host pattern of a call
          Peers,            \* connected peers that have a vault
          VaultPatterns,    \* patterns: [name, hosts, length, wildcards, bracket, bad]
          Creds,            \* credentials
          Offsets,          \* clock of a peer minus the clock of the caller
          SkewWindow,       \* DelegationSkewWindow
          GrantTTL,         \* DelegationGrantTTL
          MaxTime,          \* bound on the clock
          MaxStores,        \* bound on changes of the vaults
          MaxDrops          \* bound on control frames lost to a full queue

ASSUME DelegationAssumption ==
    /\ SkewWindow \in Nat /\ GrantTTL \in Nat /\ MaxTime \in Nat /\ Offsets \subseteq Int
    /\ \A pt \in VaultPatterns : pt.length \in Nat /\ pt.wildcards \in Nat
    /\ HostOf \in [Calls -> UNION {pt.hosts : pt \in VaultPatterns}]

VARIABLES wallClock,       \* time at the caller
          offset,      \* offset[p] \in Offsets, fixed
          vault,       \* vault[p]: Vault.entries, sequence of [pattern, cred]
          call,        \* call[c]: [pc, cred, age]; waiting calls are credResolvers
          resultCh,    \* resultCh[c]: the channel of capacity one
          requests,    \* requests[p]: request frames on their way to p
          grants,      \* grants[p]: grant frames on their way back
          answered,    \* history: calls whose own grant was handed to the resolvers
          stored,      \* history: <<pattern, credential>> ever put in a vault
          stores, drops

credVars == <<wallClock, offset, vault, call, resultCh, requests, grants, answered, stored, stores, drops>>

-----------------------------------------------------------------------------
(* Vault. *)

patternSpecificity(pt) ==
    IF pt.wildcards # 0 THEN 10 * pt.length - 100 * pt.wildcards
    ELSE IF pt.bracket THEN 5000 + pt.length ELSE 10000 + pt.length

(* Entries whose pattern does not parse are passed over; of equals the     *)
(* first wins.                                                             *)
Candidates(entries, host) ==
    {i \in DOMAIN entries : ~entries[i].pattern.bad /\ host \in entries[i].pattern.hosts}

HostMatch(entries, host) ==
    CHOOSE i \in Candidates(entries, host) :
        \A j \in Candidates(entries, host) :
            \/ patternSpecificity(entries[i].pattern) > patternSpecificity(entries[j].pattern)
            \/ patternSpecificity(entries[i].pattern) = patternSpecificity(entries[j].pattern) /\ i <= j

Store(p, pt, cred) ==
    /\ stores < MaxStores /\ stores' = stores + 1
    /\ vault' = [vault EXCEPT ![p] =
                   IF \E i \in DOMAIN @ : @[i].pattern = pt
                   THEN [i \in DOMAIN @ |-> IF @[i].pattern = pt THEN [@[i] EXCEPT !.cred = cred] ELSE @[i]]
                   ELSE Append(@, [pattern |-> pt, cred |-> cred])]
    /\ stored' = stored \cup {<<pt, cred>>}
    /\ UNCHANGED <<wallClock, offset, call, resultCh, requests, grants, answered, drops>>

-----------------------------------------------------------------------------
(* The caller. *)

(* The resolver is registered before the frame goes to every peer; a full  *)
(* queue drops the frame.                                                  *)
RequestCredential(c, lost) ==
    /\ call[c].pc = "idle"
    /\ drops + Cardinality(lost) <= MaxDrops /\ drops' = drops + Cardinality(lost)
    /\ call' = [call EXCEPT ![c].pc = "waiting"]
    /\ requests' = [p \in Peers |-> IF p \in lost THEN requests[p]
                                    ELSE Append(requests[p], [call |-> c, at |-> wallClock])]
    /\ UNCHANGED <<wallClock, offset, vault, resultCh, grants, answered, stores, stored>>

(* UnsealGrantWithNonce for call c: the nonce must be its own and the      *)
(* grant must not have expired by the caller's clock.                      *)
UnsealGrantWithNonce_AnyNonce(c, g) == wallClock <= g.expires
UnsealGrantWithNonce(c, g) == g.call = c /\ wallClock <= g.expires

Receive(c) ==
    /\ call[c].pc = "waiting" /\ resultCh[c] # <<>>
    /\ LET g == Head(resultCh[c])
       IN  call' = IF UnsealGrantWithNonce(c, g)
                   THEN [call EXCEPT ![c] = [pc |-> "done", cred |-> g.cred, age |-> wallClock - g.issued]]
                   ELSE call
    /\ resultCh' = [resultCh EXCEPT ![c] = <<>>]
    /\ UNCHANGED <<wallClock, offset, vault, requests, grants, answered, stores, drops, stored>>

(* ctx.Done(); the resolver is unregistered. *)
Cancel(c) ==
    /\ call[c].pc = "waiting"
    /\ call' = [call EXCEPT ![c].pc = "cancelled"]
    /\ UNCHANGED <<wallClock, offset, vault, resultCh, requests, grants, answered, stores, drops, stored>>

(* Every grant goes to every pending resolver that has room. *)
handleCredentialGrantFrame(p) ==
    /\ grants[p] # <<>>
    /\ LET g == Head(grants[p])
       IN  /\ resultCh' = [c \in Calls |-> IF call[c].pc = "waiting" /\ resultCh[c] = <<>>
                                           THEN <<g>> ELSE resultCh[c]]
           /\ answered' = IF call[g.call].pc = "waiting" /\ wallClock <= g.expires
                          THEN answered \cup {g.call} ELSE answered
    /\ grants' = [grants EXCEPT ![p] = Tail(@)]
    /\ UNCHANGED <<wallClock, offset, vault, call, requests, stores, drops, stored>>

-----------------------------------------------------------------------------
(* A peer. *)

(* Size of key and nonce are right by construction of the request. *)
validateRequest(p, req) ==
    LET delta == wallClock + offset[p] - req.at
    IN  delta <= SkewWindow /\ -delta <= SkewWindow

(* HandleRequest and SealGrantWithNonce; the grant expires by the clock of *)
(* the peer.                                                               *)
handleCredentialRequestFrame(p, lost) ==
    /\ requests[p] # <<>>
    /\ LET req  == Head(requests[p])
           host == HostOf[req.call]
           ok   == validateRequest(p, req) /\ Candidates(vault[p], host) # {}
       IN  /\ lost => ok /\ drops < MaxDrops
           /\ grants' = IF ok /\ ~lost
                        THEN [grants EXCEPT ![p] =
                                Append(@, [call |-> req.call, issued |-> wallClock,
                                           cred |-> vault[p][HostMatch(vault[p], host)].cred,
                                           expires |-> wallClock + offset[p] + GrantTTL])]
                        ELSE grants
           /\ drops' = IF lost THEN drops + 1 ELSE drops
    /\ requests' = [requests EXCEPT ![p] = Tail(@)]
    /\ UNCHANGED <<wallClock, offset, vault, call, resultCh, answered, stores, stored>>

CredTick ==
    /\ wallClock < MaxTime /\ wallClock' = wallClock + 1
    /\ UNCHANGED <<offset, vault, call, resultCh, requests, grants, answered, stores, drops, stored>>

-----------------------------------------------------------------------------
NoCred == "none"

CredInit ==
    /\ wallClock = 0 /\ stores = 0 /\ drops = 0 /\ answered = {} /\ stored = {}
    /\ offset \in [Peers -> Offsets]
    /\ vault = [p \in Peers |-> <<>>]
    /\ call = [c \in Calls |-> [pc |-> "idle", cred |-> NoCred, age |-> 0]]
    /\ resultCh = [c \in Calls |-> <<>>]
    /\ requests = [p \in Peers |-> <<>>] /\ grants = [p \in Peers |-> <<>>]

CredNext ==
    \/ \E c \in Calls : \/ \E lost \in SUBSET Peers : RequestCredential(c, lost)
                        \/ Receive(c) \/ Cancel(c)
    \/ \E p \in Peers : \/ \E lost \in BOOLEAN : handleCredentialRequestFrame(p, lost)
                        \/ handleCredentialGrantFrame(p)
                        \/ \E pt \in VaultPatterns, cred \in Creds : Store(p, pt, cred)
    \/ CredTick

(* The control loops of the peers and the waiting callers go on; nothing   *)
(* makes a context end.                                                    *)
CredFairness ==
    /\ \A c \in Calls : WF_credVars(Receive(c))
    /\ \A p \in Peers : /\ WF_credVars(\E lost \in BOOLEAN : handleCredentialRequestFrame(p, lost))
                        /\ WF_credVars(handleCredentialGrantFrame(p))

CredSpec == CredInit /\ [][CredNext]_credVars /\ CredFairness

-----------------------------------------------------------------------------
(* Whatever calls are pending together and in whatever order their grants  *)
(* arrive in each other's channels, a call returns only a credential that  *)
(* was stored under a pattern for its own host, and no vault holds two     *)
(* credentials for one pattern, of which Match could hand out the old one  *)
(* (UnsealGrantWithNonce, Vault.Store).                                    *)
CredentialIsForTheCaller ==
    /\ \A c \in Calls : call[c].pc = "done" =>
         \E entry \in stored : HostOf[c] \in entry[1].hosts /\ entry[2] = call[c].cred
    /\ \A p \in Peers : \A i, j \in DOMAIN vault[p] : vault[p][i].pattern = vault[p][j].pattern => i = j

(* A grant expires by the clock of the peer that sealed it and is checked  *)
(* by the clock of the caller.  Because the peer refuses a request whose   *)
(* time is too far from its own, the credential a call returns is never    *)
(* older than the time to live plus the skew window, however wrong the     *)
(* clocks are (validateRequest, UnsealGrantWithNonce).                     *)
CredentialIsFresh ==
    \A c \in Calls : call[c].pc = "done" => call[c].age <= GrantTTL + SkewWindow

(* A delegated credential is for the host it was asked for, and fresh      *)
(* (control.go, credential.go, vault.go).                                  *)
CredentialsReachOnlyTheirCall == CredentialIsForTheCaller /\ CredentialIsFresh

(* control.go:516-518 says of a grant that reached the node: "The actual   *)
(* requester will successfully unseal it".                                 *)
GrantedCallReturns ==
    \A c \in Calls : c \in answered ~> call[c].pc # "waiting"
=============================================================================
