---------------------------- MODULE VhostRouter -----------------------------
(***************************************************************************)
(* frps: the routes of http proxies (pkg/util/vhost/router.go) and how a   *)
(* request finds one (getVhost of http.go, getListener of vhost.go, which  *)
(* do the same).  A host is the sequence of its labels and a location that *)
(* of its characters, which are numbers here.  Who owns a route, and who   *)
(* may delete it, is in HTTPGroup.                                         *)
(***************************************************************************)
EXTENDS Naturals, FiniteSets, SequencesExt

CONSTANTS Label,     \* labels of names, and "*"
          Domain,    \* domains of routes: hosts, and hosts that begin with "*"
          Location,  \* prefixes of paths
          HttpUser,  \* routeByHTTPUser, and the user of a request
          AnyUser,   \* "", of a route that does not ask for a user
          Host,      \* hosts of requests
          Path,      \* paths of requests
          MaxRoutes  \* bound: routes at a time

(* Splitting a name gives at least one label. *)
ASSUME RouterAssumption ==
    /\ "*" \in Label
    /\ Domain \subseteq Seq(Label) \ {<<>>} /\ Host \subseteq Seq(Label) \ {<<>>}
    /\ Location \subseteq Seq(Nat) /\ Path \subseteq Seq(Nat)
    /\ AnyUser \in HttpUser /\ MaxRoutes \in Nat

VARIABLE indexByDomain \* the locations by domain and user, in order

NoMatch == [domain |-> <<>>, user |-> AnyUser, location |-> <<>>]

Routes == {r \in [domain : Domain, user : HttpUser, location : Location] :
              \E i \in DOMAIN indexByDomain[r.domain][r.user] :
                  indexByDomain[r.domain][r.user][i] = r.location}

(* Strings in descending order. *)
Descends(a, b) ==
    \/ IsStrictPrefix(b, a)
    \/ \E i \in DOMAIN a \cap DOMAIN b :
          a[i] > b[i] /\ \A j \in 1 .. i - 1 : a[j] = b[j]

RouterInit == indexByDomain = [d \in Domain |-> [u \in HttpUser |-> <<>>]]

(* Fault: a route is appended, and the locations are not sorted. *)
AddRouteUnsorted(d, l, u) ==
    /\ l \notin ToSet(indexByDomain[d][u])
    /\ indexByDomain' = [indexByDomain EXCEPT ![d][u] = Append(@, l)]

Descending(s) == \A i, j \in DOMAIN s : i < j => Descends(s[i], s[j])

(* Routers.Add: the locations with the new one, sorted; there is just one  *)
(* such sequence.  A route that exists is refused.                         *)
AddRoute(d, l, u) ==
    LET locs == indexByDomain[d][u]
    IN  /\ l \notin ToSet(locs)
        /\ \E s \in [1 .. Len(locs) + 1 -> ToSet(locs) \cup {l}] :
              /\ ToSet(s) = ToSet(locs) \cup {l} /\ Descending(s)
              /\ indexByDomain' = [indexByDomain EXCEPT ![d][u] = s]

(* Routers.Del of a route there is; each location is in the list once. *)
DelRoute(d, l, u) ==
    \E i \in DOMAIN indexByDomain[d][u] :
        /\ indexByDomain[d][u][i] = l
        /\ indexByDomain' = [indexByDomain EXCEPT ![d][u] = RemoveAt(@, i)]

RouterNext ==
    \E d \in Domain, l \in Location, u \in HttpUser :
        \/ Cardinality(Routes) < MaxRoutes /\ AddRoute(d, l, u)
        \/ DelRoute(d, l, u)

RouterSpec == RouterInit /\ [][RouterNext]_indexByDomain

-----------------------------------------------------------------------------
(* A request                                                               *)

(* Routers.Get: the first location that is a prefix of the path. *)
Get(d, path, u) ==
    LET locs == IF d \in Domain THEN indexByDomain[d][u] ELSE <<>>
        hits == {i \in DOMAIN locs : IsPrefix(locs[i], path)}
    IN  IF hits = {} THEN NoMatch
        ELSE [domain |-> d, user |-> u,
              location |-> locs[CHOOSE i \in hits : \A j \in hits : i <= j]]

(* findRouter: by the user of the request first, then for any user. *)
FindRouter(d, path, u) ==
    IF Get(d, path, u) # NoMatch THEN Get(d, path, u) ELSE Get(d, path, AnyUser)

(* The domains that are tried: the host; the host with ever more of its    *)
(* labels replaced by one "*", while at least two are left; and "*".       *)
Tried(host) ==
    LET wild == IF Len(host) < 3 THEN <<>>
                ELSE [i \in 1 .. Len(host) - 2 |-> <<"*">> \o SubSeq(host, i + 1, Len(host))]
    IN  <<host>> \o wild \o << <<"*">> >>

GetVhost(host, path, u) ==
    LET hits == {i \in DOMAIN Tried(host) : FindRouter(Tried(host)[i], path, u) # NoMatch}
    IN  IF hits = {} THEN NoMatch
        ELSE FindRouter(Tried(host)[CHOOSE i \in hits : \A j \in hits : i <= j], path, u)

-----------------------------------------------------------------------------
(* Correctness                                                             *)

RouterTypeOK == indexByDomain \in [Domain -> [HttpUser -> Seq(Location)]]

(* A route fits a request if its domain is the host or a wildcard of it,   *)
(* its user is that of the request or any, and its location is a prefix of *)
(* the path.                                                               *)
Fits(r, host, path, u) ==
    /\ \/ r.domain = host
       \/ r.domain = <<"*">>
       \/ r.domain[1] = "*" /\ Len(r.domain) >= 2 /\ IsStrictSuffix(Tail(r.domain), host)
    /\ r.user \in {u, AnyUser}
    /\ IsPrefix(r.location, path)

(* "*" and one label: a wildcard that the code never tries. *)
Short(r) == Len(r.domain) = 2 /\ r.domain[1] = "*"

(* Of two routes that fit, the one with the longer domain is more specific, *)
(* a host more than a wildcard; then the one that asks for a user; then    *)
(* the one with the longer location.                                       *)
DomainRank(d) == 2 * Len(d) + (IF d[1] = "*" THEN 0 ELSE 1)

MoreSpecific(r, s) ==
    \/ DomainRank(r.domain) > DomainRank(s.domain)
    \/ r.domain = s.domain /\ r.user # AnyUser /\ s.user = AnyUser
    \/ r.domain = s.domain /\ r.user = s.user /\ Len(r.location) > Len(s.location)

BestFound(host, path, u) ==
    LET fit == {r \in Routes : Fits(r, host, path, u)}
        got == GetVhost(host, path, u)
    IN  IF fit = {} THEN got = NoMatch
        ELSE got \in fit /\ \A r \in fit \ {got} : MoreSpecific(got, r)

(* "frps first searches for the most specific prefix location given by     *)
(* literal strings regardless of the listed order": a request that no      *)
(* short wildcard fits finds a route that fits whenever there is one, and  *)
(* the most specific of them, in whatever order routes are added and       *)
(* deleted.                                                                *)
MostSpecific ==
    \A host \in Host, path \in Path, u \in HttpUser :
        (\A r \in Routes : Fits(r, host, path, u) => ~Short(r)) => BestFound(host, path, u)

=============================================================================
