-------------------------------- MODULE Dns --------------------------------
(***************************************************************************)
(* One custom domain: its row, the route to it, and the records at its     *)
(* name in a Cloudflare zone, which DeployPro makes when it can and its    *)
(* owner may change at any time (engine/dns.py, adapters/cloudflare.py,    *)
(* engine/verify.py, the domain handlers of web/routes.py and              *)
(* routers/projects.py).                                                   *)
(*                                                                         *)
(* A project serves production throughout; reading the domains and writing *)
(* the route file is one step here, and two in module Promotion.           *)
(***************************************************************************)
EXTENDS Naturals, FiniteSets

CONSTANTS
    Visitor,    \* requests to the dashboard or the API
    Addresses,  \* the addresses the deployment domain resolves to
    MaxRecords, \* bound: records ever made at the name
    MaxAdds,    \* bound: times the domain is added
    Nothing     \* no record, no row

Elsewhere == "elsewhere"

ASSUME DnsAssumption ==
    /\ Elsewhere \notin Addresses /\ IsFiniteSet(Addresses)
    /\ MaxRecords \in Nat /\ MaxAdds \in Nat

VARIABLES
    zone,   \* the records made at the name, by id: who wrote it, what it says
    made,   \* how many there have been
    domain, \* the row: its id, whether verified, the records made for it
    adds,   \* how many rows there have been
    routed, \* the route file names the host
    visit,  \* where each request is
    upset   \* history: a failed or unfinished request, or two at once

dnsVars == <<zone, made, domain, adds, routed, visit, upset>>

RecordId == 1 .. MaxRecords

There == {i \in RecordId : zone[i] # Nothing}

Here(i) == zone[i].says \in Addresses

Record == [by : {"us", "owner"}, says : Addresses \cup {Elsewhere}]

DomainRow == [id : 1 .. MaxAdds, verified : BOOLEAN, records : SUBSET RecordId]

ASSUME NothingAssumption == Nothing \notin Record \cup DomainRow

Visit ==
    [at : {"idle", "look", "create", "verify", "mark", "refresh", "remove", "unroute",
           "undo", "delete"},
     row : 0 .. MaxAdds, todo : SUBSET Addresses, own : SUBSET RecordId,
     id : 0 .. MaxRecords, saw : Record \cup {Nothing}]

NoVisit == [at |-> "idle", row |-> 0, todo |-> {}, own |-> {}, id |-> 0, saw |-> Nothing]

Idles(v) == visit' = [visit EXCEPT ![v] = NoVisit]

StepsTo(v, at) == visit' = [visit EXCEPT ![v].at = at]

Starts(v, at, row, own) ==
    /\ visit[v] = NoVisit
    /\ visit' = [visit EXCEPT ![v] = [NoVisit EXCEPT !.at = at, !.row = row, !.own = own]]
    /\ upset' = (upset \/ \E o \in Visitor : visit[o] # NoVisit)

-----------------------------------------------------------------------------
(* Adding a domain, and making its record *)

\* The Domains page adds it and goes on to its DNS; the API only adds it.
Adds(v) ==
    /\ domain = Nothing /\ adds < MaxAdds
    /\ adds' = adds + 1
    /\ domain' = [id |-> adds', verified |-> FALSE, records |-> {}]
    /\ Starts(v, "look", adds', {}) \/ UNCHANGED <<visit, upset>>
    /\ UNCHANGED <<zone, made, routed>>

\* "Create DNS record", or "Verify", for a domain already there.
AsksAgain(v) ==
    /\ domain # Nothing
    /\ \E at \in {"look", "verify"} : Starts(v, at, domain.id, {})
    /\ UNCHANGED <<zone, made, domain, adds, routed>>

\* What is at the name decides: records that all point here need no more than
\* verifying, others are left alone, and nothing means making one.
Looks(v) ==
    /\ visit[v].at = "look"
    /\ \/ /\ There # {} /\ \A i \in There : Here(i)
          /\ StepsTo(v, "verify")
       \/ /\ \E i \in There : ~Here(i)
          /\ Idles(v)
       \/ /\ There = {}
          /\ visit' = [visit EXCEPT ![v].at = "create", ![v].todo = Addresses]
    /\ UNCHANGED <<zone, made, domain, adds, routed, upset>>

\* No token, no zone it can see, no address to point at, or Cloudflare failed.
ByHand(v) ==
    /\ visit[v].at = "look"
    /\ Idles(v)
    /\ UNCHANGED <<zone, made, domain, adds, routed, upset>>

\* One record for each address.
Creates(v) ==
    /\ visit[v].at = "create" /\ made < MaxRecords
    /\ \E a \in visit[v].todo :
          /\ \A i \in There : zone[i].says # a
          /\ made' = made + 1
          /\ zone' = [zone EXCEPT ![made'] = [by |-> "us", says |-> a]]
          /\ visit' = [visit EXCEPT ![v].todo = @ \ {a}, ![v].own = @ \cup {made'}]
    /\ UNCHANGED <<domain, adds, routed, upset>>

\* Cloudflare refuses one, or is away: what was made before it is forgotten.
CreateFails(v) ==
    /\ visit[v].at = "create" /\ visit[v].todo # {}
    /\ upset' = (upset \/ visit[v].own # {})
    /\ Idles(v)
    /\ UNCHANGED <<zone, made, domain, adds, routed>>

RowIsThere(v) == domain # Nothing /\ domain.id = visit[v].row

Saves(v) ==
    /\ visit[v].at = "create" /\ visit[v].todo = {}
    /\ IF RowIsThere(v)
       THEN /\ domain' = [domain EXCEPT !.records = visit[v].own]
            /\ visit' = [visit EXCEPT ![v].at = "verify", ![v].own = {}]
            /\ UNCHANGED upset
       ELSE Idles(v) /\ upset' = TRUE /\ UNCHANGED domain
    /\ UNCHANGED <<zone, made, adds, routed>>

\* The name resolves here, or not yet as far as this host can see.
Verifies(v) ==
    /\ visit[v].at = "verify"
    /\ \/ Idles(v)
       \/ (\E i \in There : Here(i)) /\ StepsTo(v, "mark")
    /\ UNCHANGED <<zone, made, domain, adds, routed, upset>>

Marks(v) ==
    /\ visit[v].at = "mark"
    /\ IF RowIsThere(v)
       THEN domain' = [domain EXCEPT !.verified = TRUE] /\ StepsTo(v, "refresh")
       ELSE Idles(v) /\ UNCHANGED domain
    /\ UNCHANGED <<zone, made, adds, routed, upset>>

\* routing.refresh: the route names the host if its row says verified.
Reroutes(v) ==
    /\ visit[v].at \in {"refresh", "unroute"}
    /\ routed' = (domain # Nothing /\ domain.verified)
    /\ IF visit[v].at = "unroute" THEN StepsTo(v, "undo") ELSE Idles(v)
    /\ UNCHANGED <<zone, made, domain, adds, upset>>

-----------------------------------------------------------------------------
(* Removing it *)

RemoveReads(v) ==
    /\ domain # Nothing
    /\ Starts(v, "remove", domain.id, domain.records)
    /\ UNCHANGED <<zone, made, domain, adds, routed>>

\* By host, whichever row has it now.  The API's handler leaves the records.
RemoveRow(v) ==
    /\ visit[v].at = "remove"
    /\ domain' = Nothing
    /\ \/ StepsTo(v, "unroute") /\ UNCHANGED upset
       \/ StepsTo(v, "refresh") /\ upset' = (upset \/ visit[v].own # {})
    /\ UNCHANGED <<zone, made, adds, routed>>

\* Variant: whatever is still there with its id is deleted.
UndoesAll(v) ==
    /\ visit[v].at = "undo"
    /\ \/ /\ visit[v].own = {} /\ Idles(v)
       \/ \E i \in visit[v].own :
             visit' = IF zone[i] = Nothing
                      THEN [visit EXCEPT ![v].own = @ \ {i}]
                      ELSE [visit EXCEPT ![v].own = @ \ {i}, ![v].at = "delete",
                                         ![v].id = i, ![v].saw = zone[i]]
    /\ UNCHANGED <<zone, made, domain, adds, routed, upset>>

\* Each record made is read back, and kept when it was changed.
Undoes(v) ==
    /\ visit[v].at = "undo"
    /\ \/ /\ visit[v].own = {} /\ Idles(v)
       \/ \E i \in visit[v].own :
             visit' = IF zone[i] = Nothing \/ zone[i].by # "us"
                      THEN [visit EXCEPT ![v].own = @ \ {i}]
                      ELSE [visit EXCEPT ![v].own = @ \ {i}, ![v].at = "delete",
                                         ![v].id = i, ![v].saw = zone[i]]
    /\ UNCHANGED <<zone, made, domain, adds, routed, upset>>

Deletes(v) ==
    /\ visit[v].at = "delete"
    /\ zone' = [zone EXCEPT ![visit[v].id] = Nothing]
    /\ StepsTo(v, "undo")
    /\ UNCHANGED <<made, domain, adds, routed, upset>>

\* Cloudflare failed, or the control plane stopped: a request ends anywhere.
EndsEarly(v) ==
    /\ visit[v] # NoVisit
    /\ Idles(v) /\ upset' = TRUE
    /\ UNCHANGED <<zone, made, domain, adds, routed>>

-----------------------------------------------------------------------------
\* The owner, on Cloudflare: adds a record, rewrites or deletes any.
OwnerEdits ==
    /\ \/ /\ made < MaxRecords
          /\ made' = made + 1
          /\ \E to \in Addresses \cup {Elsewhere} :
                /\ \A i \in There : zone[i].says # to
                /\ zone' = [zone EXCEPT ![made'] = [by |-> "owner", says |-> to]]
       \/ \E i \in There :
             /\ zone' \in {[zone EXCEPT ![i] = r] :
                              r \in {Nothing, [by |-> "owner", says |-> Elsewhere]}}
             /\ UNCHANGED made
    /\ UNCHANGED <<domain, adds, routed, visit, upset>>

DnsStep(v) ==
    \/ Adds(v) \/ AsksAgain(v) \/ Looks(v) \/ ByHand(v) \/ Creates(v) \/ CreateFails(v)
    \/ Saves(v) \/ Verifies(v) \/ Marks(v) \/ Reroutes(v) \/ RemoveReads(v)
    \/ RemoveRow(v) \/ Undoes(v) \/ Deletes(v) \/ EndsEarly(v)

DnsNext == OwnerEdits \/ \E v \in Visitor : DnsStep(v)

DnsInit ==
    /\ zone = [i \in RecordId |-> Nothing] /\ made = 0
    /\ domain = Nothing /\ adds = 0 /\ routed = FALSE
    /\ visit = [v \in Visitor |-> NoVisit] /\ upset = FALSE

DnsTypeOK ==
    /\ zone \in [RecordId -> Record \cup {Nothing}]
    /\ made \in 0 .. MaxRecords /\ adds \in 0 .. MaxAdds
    /\ domain \in DomainRow \cup {Nothing}
    /\ routed \in BOOLEAN /\ upset \in BOOLEAN
    /\ visit \in [Visitor -> Visit]

-----------------------------------------------------------------------------
\* A record DeployPro sets out to delete is one it made, for the row it
\* removed, and was still what it made when it looked.
DeletesItsOwn ==
    \A v \in Visitor : visit[v].at = "delete" => visit[v].saw.by = "us"

\* A domain removed while nothing failed and no two requests overlapped
\* leaves neither a route nor a record of DeployPro's behind, whatever the
\* owner did to the zone; and its records go only after its route is gone.
RemovalIsClean ==
    ~upset =>
        /\ domain = Nothing /\ (\A v \in Visitor : visit[v] = NoVisit) =>
              ~routed /\ \A i \in There : zone[i].by = "owner"
        /\ (\E v \in Visitor : visit[v].at \in {"undo", "delete"}) => ~routed

\* The two promises about somebody else's zone (dns.py: never overwrite, and
\* removal deletes only what DeployPro made).
ZoneRespected == DeletesItsOwn /\ RemovalIsClean
=============================================================================
