---------------------------- MODULE MerchantAccess -----------------------------
(***************************************************************************)
(* Who is let through to connect a shop: a verified identity is resolved   *)
(* to the tenant its provisioning key derives, and the agreement gate asks *)
(* whether that tenant has accepted the documents the API serves now.      *)
(*                                                                         *)
(* Each request of a merchant resolves its tenant first, in a transaction  *)
(* of its own.  A deployment may bring another bundle of documents, with a *)
(* new version or without, or another key.  The ids of a tenant follow     *)
(* from the key and the identity, so a tenant is that pair; there is one   *)
(* identity in a tenant.  Token checks and digests are left out.           *)
(***************************************************************************)
EXTENDS Integers

CONSTANTS
    Identities,
    ProvisioningKeys,
    BundleVersions,
    Texts           \* of the documents, which stand for their hashes

ASSUME AccessAssumption == "none" \notin BundleVersions \cup ProvisioningKeys

Bundles == [version : BundleVersions, hashes : Texts]
Tenants == [key : ProvisioningKeys, identity : Identities]
Unbound == [key |-> "none"]

VARIABLES
    provisioningKey,
    bundle,         \* the documents the API serves
    boundTo,        \* identity_tenants: the tenant of an identity
    acceptances,    \* merchant_agreement_acceptances
    asked,          \* version the page of an identity asks its user to accept, or none
    admitted        \* history: who was let through to connect, as which tenant, under which bundle

accessVars == <<provisioningKey, bundle, boundTo, acceptances, asked, admitted>>

AccessTypeOK ==
    /\ provisioningKey \in ProvisioningKeys
    /\ bundle \in Bundles
    /\ boundTo \in [Identities -> Tenants \cup {Unbound}]
    /\ acceptances \subseteq [tenant : Tenants, bundle : Bundles]
    /\ asked \in [Identities -> BundleVersions \cup {"none"}]
    /\ admitted \subseteq [identity : Identities, tenant : Tenants, bundle : Bundles]

AccessInit ==
    /\ provisioningKey \in ProvisioningKeys
    /\ bundle \in Bundles
    /\ boundTo = [i \in Identities |-> Unbound]
    /\ acceptances = {} /\ admitted = {}
    /\ asked = [i \in Identities |-> "none"]

Deploy ==
    /\ provisioningKey' \in ProvisioningKeys
    /\ bundle' \in Bundles
    /\ UNCHANGED <<boundTo, acceptances, asked, admitted>>

TenantOf(i) == [key |-> provisioningKey, identity |-> i]

\* resolve: an identity that is bound to another tenant is refused; the row security of
\* identity_tenants refuses it before the code does, so nothing is left behind.
Resolve(i) ==
    /\ boundTo[i] \in {Unbound, TenantOf(i)}
    /\ boundTo' = [boundTo EXCEPT ![i] = TenantOf(i)]

\* GET /agreements
ShowAgreements(i) ==
    /\ Resolve(i)
    /\ asked' = [asked EXCEPT ![i] = bundle.version]
    /\ UNCHANGED <<provisioningKey, bundle, acceptances, admitted>>

Accepted(tenant, version) == {a \in acceptances : a.tenant = tenant /\ a.bundle.version = version}

\* accept: one acceptance of a version, so the first one stays even if the text has changed since.
AcceptAgreements(i) ==
    /\ asked[i] = bundle.version
    /\ Resolve(i)
    /\ acceptances' = IF Accepted(TenantOf(i), bundle.version) # {} THEN acceptances
                      ELSE acceptances \cup {[tenant |-> TenantOf(i), bundle |-> bundle]}
    /\ UNCHANGED <<provisioningKey, bundle, asked, admitted>>

\* Mutant: the version is compared, not the hashes.
StatusOfVersion(tenant) == Accepted(tenant, bundle.version) # {}

\* status: the version and the hashes are those of the bundle.
Status(tenant) == \E a \in Accepted(tenant, bundle.version) : a.bundle.hashes = bundle.hashes

\* POST /connect: what is begun here is the connection of ShopifyConnection.
Connect(i) ==
    /\ Resolve(i)
    /\ Status(TenantOf(i))
    /\ admitted' = admitted \cup {[identity |-> i, tenant |-> TenantOf(i), bundle |-> bundle]}
    /\ UNCHANGED <<provisioningKey, bundle, acceptances, asked>>

AccessNext ==
    \/ Deploy
    \/ \E i \in Identities : ShowAgreements(i) \/ AcceptAgreements(i) \/ Connect(i)

AccessSpec == AccessInit /\ [][AccessNext]_accessVars

-------------------------------------------------------------------------------
(* Property.                                                               *)

\* Who was let through to connect a shop had accepted, in the very tenant it connects, exactly the
\* documents that were in force, whatever deployments came in between; and an identity never acts
\* in two tenants.  After a rotation of the key the service derives another tenant for it,
\* and it is refused rather than given a second one: what it connected stays, out of its reach.
AccessRestsOnConsent ==
    /\ \A c \in admitted : [tenant |-> c.tenant, bundle |-> c.bundle] \in acceptances
    /\ \A c \in admitted, d \in admitted : c.identity = d.identity => c.tenant = d.tenant

===============================================================================
