----------------------------- MODULE ToolCatalog -----------------------------
(***************************************************************************)
(* The tools of a session: consumers register them (RegisterTool), serve   *)
(* them over provider streams (ProvideTools), and every driver is launched *)
(* with a catalog of those its operation may use.  Registrations are never *)
(* changed or removed.  A call reads the tenure of the host first and acts *)
(* under it later; a launch reads the catalog before it waits for the      *)
(* launch lock and again when it has it.                                   *)
(***************************************************************************)
EXTENDS Naturals, FiniteSets

CONSTANTS
  Consumer,        \* the consumer key of the session
  RegisterCalls,       \* n -> [request, consumer, name, version, schema, needs]
  Streams,         \* stream -> [provider, conn, consumer, tools]
  Works,           \* operation -> the capabilities its participant may use in it
  ToolTenures,     \* bound: tenures explored
  MaxTools,        \* MAX_TOOL_REGISTRATIONS
  MaxProviders     \* MAX_ACTIVE_PROVIDERS

VARIABLES
  holder,    \* the tenure of the host: its epoch, and whether the lease is live
  regrows,   \* rows of tool_registrations
  regledger, \* request ledger of both commands
  regcalls,  \* RegisterTool calls
  links,     \* tool_provider_connections: provider -> [conn, gen, tools]
  provides,  \* ProvideTools calls
  routing,   \* the providers map: provider -> [stream, conn, gen, tools]
  fetch,     \* the driver_for call in progress
  shown,     \* the cached driver: operation, catalog and tenure it was launched with
  served     \* the operation last given a driver, with what the driver shows

catalogVars == <<holder, regrows, regledger, regcalls, links, provides, routing, fetch,
                 shown, served>>

NoOne == [absent |-> TRUE]
Providers == {Streams[s].provider : s \in DOMAIN Streams}
Owns(e) == holder.live /\ holder.epoch = e

CatalogInit ==
  /\ holder = [epoch |-> 1, live |-> TRUE]
  /\ regrows = {} /\ regledger = {}
  /\ regcalls = [n \in DOMAIN RegisterCalls |-> [pc |-> "idle"]]
  /\ links = [p \in Providers |-> NoOne]
  /\ provides = [s \in DOMAIN Streams |-> [pc |-> "idle"]]
  /\ routing = [p \in Providers |-> NoOne]
  /\ fetch = [pc |-> "idle"]
  /\ shown = NoOne
  /\ served = NoOne

-----------------------------------------------------------------------------
(* RegisterTool. *)

\* stable_registration_id: the identity follows from session, name and version.
StableRegistrationId(name, version) == <<name, version>>

\* definition_from_wire: what of the tool the store keeps.
DefinitionFromWire(n) ==
  [name |-> RegisterCalls[n].name, version |-> RegisterCalls[n].version,
   schema |-> RegisterCalls[n].schema, needs |-> RegisterCalls[n].needs]

\* The command, as register_inner makes it under the tenure it was given.
RegisterCommand(n) ==
  LET d == DefinitionFromWire(n)
  IN [id |-> StableRegistrationId(d.name, d.version), consumer |-> RegisterCalls[n].consumer,
      definition |-> d, epoch |-> regcalls[n].epoch]

\* authenticated_consumer: the negotiation is bound to the session's consumer.
AuthenticatedConsumer(c) == c = Consumer

\* service.rs register_tool reads the tenure; the broker then checks the
\* consumer.  A consumer may repeat its call.
RegisterToolRpc(n) ==
  /\ regcalls[n].pc \in {"idle", "answered"} /\ holder.live
  /\ regcalls' = [regcalls EXCEPT ![n] =
       IF AuthenticatedConsumer(RegisterCalls[n].consumer)
       THEN [pc |-> "called", epoch |-> holder.epoch] ELSE [pc |-> "answered", out |-> "unauthorized"]]
  /\ UNCHANGED <<holder, regrows, regledger, links, provides, routing, fetch, shown, served>>

LoadToolRegistration(name, version) ==
  {r \in regrows : r.definition.name = name /\ r.definition.version = version}

CapacityReached == Cardinality(regrows) >= MaxTools

\* reject_aliased_tool_registration: the identity names another tool.
Aliased(c) ==
  \E r \in regrows : /\ r.id = c.id
                      /\ \/ r.definition.name # c.definition.name
                         \/ r.definition.version # c.definition.version

InLedger(q) == {l \in regledger : l.request = q}

RegAnswer(n, out) == regcalls' = [regcalls EXCEPT ![n] = [pc |-> "answered", out |-> out]]

\* Mutant of RegisterTool: a tool registered again is replaced.
MutRegisterTool(n) ==
  /\ regcalls[n].pc = "called"
  /\ LET q == RegisterCalls[n].request
         c == RegisterCommand(n)
     IN IF Owns(c.epoch)
        THEN /\ regrows' = {r \in regrows : r.id # c.id}
                              \cup {[id |-> c.id, definition |-> c.definition]}
             /\ regledger' = regledger \cup {[request |-> q, command |-> c]}
             /\ RegAnswer(n, "registered")
        ELSE RegAnswer(n, "refused") /\ UNCHANGED <<regrows, regledger>>
  /\ UNCHANGED <<holder, links, provides, routing, fetch, shown, served>>

\* A repeated request is answered from the ledger; the same tool under
\* another request is left alone, another tool of its name and version is a
\* conflict.
RegisterTool(n) ==
  /\ regcalls[n].pc = "called"
  /\ LET q == RegisterCalls[n].request
         c == RegisterCommand(n)
         existing == LoadToolRegistration(c.definition.name, c.definition.version)
         row == [id |-> c.id, definition |-> c.definition]
         record == regledger' = regledger \cup {[request |-> q, command |-> c]}
     IN CASE InLedger(q) # {} ->
               /\ RegAnswer(n, IF \A l \in InLedger(q) : l.command = c
                               THEN "registered" ELSE "conflict")
               /\ UNCHANGED <<regrows, regledger>>
          [] InLedger(q) = {} /\ (~Owns(c.epoch) \/ c.consumer # Consumer) ->
               RegAnswer(n, "refused") /\ UNCHANGED <<regrows, regledger>>
          [] InLedger(q) = {} /\ Owns(c.epoch) /\ c.consumer = Consumer /\ existing # {} ->
               IF existing = {row} /\ ~Aliased(c)
               THEN RegAnswer(n, "registered") /\ record /\ UNCHANGED regrows
               ELSE RegAnswer(n, "conflict") /\ UNCHANGED <<regrows, regledger>>
          [] OTHER ->
               IF CapacityReached \/ Aliased(c)
               THEN RegAnswer(n, "refused") /\ UNCHANGED <<regrows, regledger>>
               ELSE RegAnswer(n, "registered") /\ record /\ regrows' = regrows \cup {row}
  /\ UNCHANGED <<holder, links, provides, routing, fetch, shown, served>>

-----------------------------------------------------------------------------
(* ProvideTools. *)

ProvideStep(s, to) == provides' = [provides EXCEPT ![s] = to]

\* provide_inner up to the store: owner_epoch and authenticated_consumer.
ProvideToolsRpc(s) ==
  /\ provides[s].pc = "idle" /\ holder.live
  /\ ProvideStep(s, IF AuthenticatedConsumer(Streams[s].consumer)
                    THEN [pc |-> "called", epoch |-> holder.epoch] ELSE [pc |-> "ended"])
  /\ UNCHANGED <<holder, regrows, regledger, regcalls, links, routing, fetch, shown, served>>

ConnectCommand(s) ==
  [provider |-> Streams[s].provider, conn |-> Streams[s].conn, tools |-> Streams[s].tools,
   epoch |-> provides[s].epoch]

\* Every tool served is registered; the connection's identity is not another
\* provider's.
ConnectAdmits(c) ==
  /\ Owns(c.epoch)
  /\ c.tools # {}
  /\ \A t \in c.tools : \E r \in regrows : r.id = t
  /\ \A p \in Providers \ {c.provider} : links[p] # NoOne => links[p].conn # c.conn

\* connect_tool_provider; the request's identity follows from the
\* connection's, so a second stream of one connection is answered with its
\* first generation.
ConnectProvider(s) ==
  /\ provides[s].pc = "called"
  /\ LET c == ConnectCommand(s)
         q == <<c.provider, c.conn>>
         gen == IF links[c.provider] = NoOne THEN 1 ELSE links[c.provider].gen + 1
     IN CASE InLedger(q) # {} ->
               /\ ProvideStep(s, IF \A l \in InLedger(q) : l.command = c
                                 THEN [pc |-> "connected",
                                       gen |-> (CHOOSE l \in InLedger(q) : TRUE).gen]
                                 ELSE [pc |-> "ended"])
               /\ UNCHANGED <<links, regledger>>
          [] InLedger(q) = {} /\ ConnectAdmits(c) ->
               /\ links' = [links EXCEPT ![c.provider] = [conn |-> c.conn, gen |-> gen]]
               /\ regledger' = regledger \cup {[request |-> q, command |-> c, gen |-> gen]}
               /\ ProvideStep(s, [pc |-> "connected", gen |-> gen])
          [] OTHER -> ProvideStep(s, [pc |-> "ended"]) /\ UNCHANGED <<links, regledger>>
  /\ UNCHANGED <<holder, regrows, regcalls, routing, fetch, shown, served>>

Routed == {p \in Providers : routing[p] # NoOne}

\* The connection is committed before the host looks for room, so a stream
\* refused here leaves its generation behind.
InstallProviderRoute(s) ==
  /\ provides[s].pc = "connected"
  /\ LET p == Streams[s].provider
         full == Cardinality(Routed) >= MaxProviders /\ p \notin Routed
         superseded == /\ p \in Routed
                       /\ \/ routing[p].gen > provides[s].gen
                          \/ /\ routing[p].gen = provides[s].gen
                             /\ routing[p].conn # Streams[s].conn
     IN IF full \/ superseded
        THEN ProvideStep(s, [pc |-> "ended"]) /\ UNCHANGED routing
        ELSE /\ ProvideStep(s, [provides[s] EXCEPT !.pc = "serving"])
             /\ routing' = [routing EXCEPT ![p] = [conn |-> Streams[s].conn,
                                                   gen |-> provides[s].gen,
                                                   tools |-> Streams[s].tools]]
  /\ UNCHANGED <<holder, regrows, regledger, regcalls, links, fetch, shown, served>>

\* The end of a stream's task takes its route away.
ProviderLeaves(s) ==
  /\ provides[s].pc = "serving"
  /\ LET p == Streams[s].provider
     IN routing' = IF /\ routing[p] # NoOne
                      /\ routing[p].conn = Streams[s].conn /\ routing[p].gen = provides[s].gen
                   THEN [routing EXCEPT ![p] = NoOne] ELSE routing
  /\ ProvideStep(s, [pc |-> "ended"])
  /\ UNCHANGED <<holder, regrows, regledger, regcalls, links, fetch, shown, served>>

-----------------------------------------------------------------------------
(* The catalog a driver is launched with. *)

\* build_catalog: an entry for every tool the operation may use.
BuildCatalog(o, rows) == {r \in rows : r.definition.needs \in Works[o]}

\* StoreTrustedToolCatalog::catalog; its identity binds operation and registrations.
Catalog(o) == [work |-> o, rows |-> regrows, entries |-> BuildCatalog(o, regrows)]

\* operation_catalog_lifecycle_action: an operation without tools takes the
\* driver as it is, any other one needs the driver of its own catalog.
Reusable(cat) ==
  /\ shown # NoOne /\ shown.epoch = fetch.epoch
  /\ cat.entries = {} \/ shown.catalog = cat

Serve(cat, driver) ==
  served' = [work |-> fetch.work, wants |-> cat.entries,
             shows |-> driver.catalog.entries, of |-> driver.catalog.work]

\* driver_for: the tenure and the catalog are read.
DriverFor(o) ==
  /\ fetch.pc = "idle" /\ holder.live
  /\ fetch' = [pc |-> "read", work |-> o, epoch |-> holder.epoch, catalog |-> Catalog(o)]
  /\ UNCHANGED <<holder, regrows, regledger, regcalls, links, provides, routing, shown, served>>

ReuseDriver ==
  /\ fetch.pc = "read" /\ Reusable(fetch.catalog)
  /\ Serve(fetch.catalog, shown)
  /\ fetch' = [pc |-> "idle"]
  /\ UNCHANGED <<holder, regrows, regledger, regcalls, links, provides, routing, shown>>

\* What determines the launch is read again under the launch lock; then the
\* driver that is there is stopped.
SnapshotUnchanged ==
  /\ fetch.pc = "read" /\ ~Reusable(fetch.catalog)
  /\ IF Owns(fetch.epoch) /\ Catalog(fetch.work) = fetch.catalog
     THEN fetch' = [fetch EXCEPT !.pc = "admitted"] /\ shown' = NoOne
     ELSE fetch' = [pc |-> "idle"] /\ UNCHANGED shown
  /\ UNCHANGED <<holder, regrows, regledger, regcalls, links, provides, routing, served>>

\* Launched, or refused (a cancellation, a full cache, an artifact that
\* changed, a failed start).
LaunchWithCatalog ==
  /\ fetch.pc = "admitted"
  /\ fetch' = [pc |-> "idle"]
  /\ \/ UNCHANGED <<shown, served>>
     \/ /\ shown' = [epoch |-> fetch.epoch, catalog |-> fetch.catalog]
        /\ Serve(fetch.catalog, shown')
  /\ UNCHANGED <<holder, regrows, regledger, regcalls, links, provides, routing>>

\* reconnect_origin: the driver is met again only under the catalog it has.
ReconnectOrigin(o) ==
  /\ shown # NoOne /\ shown.catalog.work = o /\ holder.live
  /\ fetch.pc = "idle"
  /\ Catalog(o) = shown.catalog
  /\ served' = [work |-> o, wants |-> Catalog(o).entries,
                shows |-> shown.catalog.entries, of |-> o]
  /\ UNCHANGED <<holder, regrows, regledger, regcalls, links, provides, routing, fetch, shown>>

\* External: the lease lapses, or a later tenure takes the session.
ToolTenureChanges ==
  /\ IF holder.live THEN holder' = [holder EXCEPT !.live = FALSE]
     ELSE holder.epoch + 1 \in ToolTenures /\ holder' = [epoch |-> holder.epoch + 1, live |-> TRUE]
  /\ UNCHANGED <<regrows, regledger, regcalls, links, provides, routing, fetch, shown, served>>

Registration ==
  \/ \E n \in DOMAIN RegisterCalls : RegisterToolRpc(n) \/ RegisterTool(n)
  \/ ToolTenureChanges

Provision ==
  \E s \in DOMAIN Streams :
    ProvideToolsRpc(s) \/ ConnectProvider(s) \/ InstallProviderRoute(s) \/ ProviderLeaves(s)

Catalogued ==
  \/ \E o \in DOMAIN Works : DriverFor(o) \/ ReconnectOrigin(o)
  \/ ReuseDriver \/ SnapshotUnchanged \/ LaunchWithCatalog

CatalogNext == Registration \/ Provision \/ Catalogued

CatalogSpec == CatalogInit /\ [][CatalogNext]_catalogVars

-----------------------------------------------------------------------------
\* What an operation with tools is shown is what it may use, of the tools
\* registered for good: a driver launched for it shows exactly the tools of
\* the catalog read for it, each still registered as it is shown; a routed
\* provider serves registered tools only, and an acknowledged registration
\* stands.  (driver_for, build_catalog, register_tool, connect_tool_provider)
OffersStand ==
  /\ served # NoOne =>
       /\ served.wants # {} => served.shows = served.wants /\ served.of = served.work
       /\ served.shows \subseteq BuildCatalog(served.of, regrows)
  /\ \A p \in Routed : \A t \in routing[p].tools : \E r \in regrows : r.id = t
  /\ \A n \in DOMAIN RegisterCalls :
       regcalls[n].pc = "answered" /\ regcalls[n].out = "registered" =>
         \E r \in regrows : r.definition = DefinitionFromWire(n)
=============================================================================
