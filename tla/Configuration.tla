--------------------------- MODULE Configuration ---------------------------
(***************************************************************************)
(* zammad_config and integration_keys: the administrator stores the        *)
(* address of Zammad, NightOwl or BookOwl and its token, and every request *)
(* and every event of the worker reads them back to build its client.      *)
(*                                                                         *)
(* Left out: the tokens and the webhook secret, which go with the address, *)
(* and failing queries, which change nothing.                              *)
(***************************************************************************)
EXTENDS Naturals

CONSTANTS
  Services, \* "nightowl" and "bookowl": the services of integration_keys,
            \* which Zammad is not
  Urls,     \* addresses
  Pauses,   \* values of pause_statuses
  Readers,  \* requests and events that build clients
  MaxPuts   \* bound: PUT requests

Zammad == "zammad"
Systems == Services \cup {Zammad}
NoUrl == "no url"

VARIABLES
  rows,    \* table zammad_config: records of id, url and pauses
  keys,    \* table integration_keys: the address of each service
  puts,    \* PUT requests so far
  current, \* history: the address of each system in the last of them
  client,  \* the address each reader has built its client of a system with
  asked    \* history: current, when the client was built

vars == <<rows, keys, puts, current, client, asked>>

Init ==
  /\ rows = {} /\ keys = [s \in Services |-> NoUrl]
  /\ puts = 0 /\ current = [s \in Systems |-> NoUrl]
  /\ client = [r \in Readers |-> current]
  /\ asked = client

Put(s, url) ==
  /\ puts < MaxPuts
  /\ puts' = puts + 1
  /\ current' = [current EXCEPT ![s] = url]
  /\ UNCHANGED <<client, asked>>

(* The statement sends no id and the column's default is a new one: ON     *)
(* CONFLICT (id) never applies, and nothing else in the table is unique.   *)
UpsertZammadConfig(url, pauses) ==
  /\ Put(Zammad, url)
  /\ rows' = rows \cup {[id |-> puts', url |-> url, pauses |-> pauses]}
  /\ UNCHANGED keys

UpdateZammadPauseStatuses(pauses) ==
  /\ rows # {}
  /\ rows' = {[row EXCEPT !.pauses = pauses] : row \in rows}
  /\ UNCHANGED <<keys, puts, current, client, asked>>

(* ON CONFLICT (service): the one row of the service is replaced.          *)
UpsertIntegrationKey(s, url) ==
  /\ Put(s, url)
  /\ keys' = [keys EXCEPT ![s] = url]
  /\ UNCHANGED rows

Build(r, s, url) ==
  /\ client' = [client EXCEPT ![r][s] = url]
  /\ asked' = [asked EXCEPT ![r][s] = current[s]]
  /\ UNCHANGED <<rows, keys, puts, current>>

(* LIMIT 1 without an order: any row.                                      *)
ZammadClient(r) == \E row \in rows : Build(r, Zammad, row.url)

(* NightOwlClient and BookOwlClient: the row of the service, if any.       *)
ServiceClient(r, s) == keys[s] # NoUrl /\ Build(r, s, keys[s])

Next ==
  \/ \E pauses \in Pauses :
       \/ \E url \in Urls : UpsertZammadConfig(url, pauses)
       \/ UpdateZammadPauseStatuses(pauses)
  \/ \E s \in Services, url \in Urls : UpsertIntegrationKey(s, url)
  \/ \E r \in Readers :
       ZammadClient(r) \/ \E s \in Services : ServiceClient(r, s)

Spec == Init /\ [][Next]_vars

-----------------------------------------------------------------------------
(* Properties.                                                             *)

(* A PUT of the configuration inserts or updates it: a client built after  *)
(* the PUT was answered talks to the Zammad it named.                      *)
ConfigTakesEffect ==
  \A r \in Readers, s \in Systems : client[r][s] = asked[r][s]
=============================================================================
