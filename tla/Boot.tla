-------------------------------- MODULE Boot --------------------------------
(***************************************************************************)
(* src/main.c, with the configuration parser, the service registry and the *)
(* init functions it calls, in the build with the echo service and OTA.    *)
(* Main runs beside the threads it has started: from discovery_start on    *)
(* they use the registry, the tables and the queues main goes on making.   *)
(***************************************************************************)
EXTENDS Integers, Sequences, FiniteSets, SequencesExt

CONSTANTS
  Name,          \* service names that fit their buffer
  Long, Cut,     \* a name that does not fit, and its first 31 characters
  Image,         \* what may be stored: [form, services], see ImageType
  MaxServices,   \* CEELL_CONFIG_MAX_SERVICES
  RegistrySize,  \* CONFIG_CEELL_MAX_SERVICES
  Wide           \* 2^16: a uint16_t holds 0..Wide-1

Builtin == <<"echo", "ota">>  \* the services main registers itself
NoName  == ""

ASSUME ImageType ==
  \A i \in Image :
    LET names == Name \cup {NoName, Long}
    IN  \/ i.form \in {"none", "v1", "other"} /\ i.services \in Seq(names)
        \/ i.form = "v2" /\ i.services \in Seq([name : names, priority : Int, deadline_ms : Int])
ASSUME NamesFit ==
  Range(Builtin) \cup {Cut} \subseteq Name /\ {NoName, Long} \cap Name = {} /\ Long # NoName
ASSUME Sizes == MaxServices \in Nat /\ RegistrySize \in Nat \ {0} /\ MaxServices <= RegistrySize /\ Wide \in Nat \ {0}

VARIABLES
  pc,        \* the step main is at, or "returned"
  flash,     \* the image in the configuration partition
  config,    \* struct ceell_config
  identity,  \* node_identity.c's initialized
  services,  \* the registry: a sequence of [name, handler, sla]
  done,      \* how many configured services main has gone through
  ready,     \* kernel objects and sockets that exist
  running,   \* threads that have been created
  svc_csv,   \* what the announcement being built will list, << >> between two
  sent,      \* the service lists announced so far
  answer,    \* the last request served: the name asked for, the handler found
  early,     \* pairs of a thread and an object it used before it was ready
  failed     \* the steps that failed

main == <<pc, flash, config, identity, services, done, ready, running, failed>>
vars == <<main, svc_csv, sent, answer, early>>

(***************************************************************************)
(* config_parser.c                                                         *)
(***************************************************************************)
Defaults == [version |-> 0, services |-> << >>, service_slas |-> << >>]

\* The k-th of a set of indices.
Position(S, k) == CHOOSE i \in S : Cardinality({j \in S : j <= i}) = k

\* Mutant: no test for room.
Kept_unbounded(seq, S) == [k \in 1..Cardinality(S) |-> seq[Position(S, k)]]

\* Of a list, the elements at the indices S, until the configuration is full.
Kept(seq, S) ==
  [k \in 1..Min({MaxServices, Cardinality(S)}) |-> seq[Position(S, k)]]

\* Version 1: names that are empty or do not fit are skipped.
parse_services_csv(names) == Kept(names, {i \in DOMAIN names : names[i] \notin {NoName, Long}})

\* A name that does not fit is cut.
Fitted(name) == IF name = Long THEN Cut ELSE name

\* CEELL_MSG_NORMAL and no deadline.
DefaultSla == [priority |-> 1, deadline_ms |-> 0]

\* A priority out of range counts as NORMAL, and a deadline is cast to uint16_t.
Sla(entry) ==
  [priority    |-> IF entry.priority \in 0..2 THEN entry.priority ELSE DefaultSla.priority,
   deadline_ms |-> IF entry.deadline_ms >= 0 THEN entry.deadline_ms % Wide ELSE 0]

\* Version 2: entries with an empty name are skipped.
Named(entries) == {i \in DOMAIN entries : entries[i].name # NoName}

\* Mutant: the SLAs are stored by the index of the image.
parse_services_v2_byEntry(entries) ==
  LET kept == Kept(entries, Named(entries))
  IN  [version |-> 2, services |-> [i \in DOMAIN kept |-> Fitted(kept[i].name)],
       service_slas |-> [i \in DOMAIN kept |-> Sla(entries[i])]]

parse_services_v2(entries) ==
  LET kept == Kept(entries, Named(entries))
  IN  [version |-> 2, services |-> [i \in DOMAIN kept |-> Fitted(kept[i].name)],
       service_slas |-> [i \in DOMAIN kept |-> Sla(kept[i])]]

\* External: the JSON library rejects an array longer than its descriptor allows.
JsonParses(image) == image.form = "v2" => Len(image.services) <= MaxServices

\* image is what was read from flash or the memory-mapped copy; its form is "none"
\* when neither could be read, was blank or could not be parsed.
ceell_config_load(image) ==
  CASE image.form = "v1" ->
         [version |-> 1, services |-> parse_services_csv(image.services), service_slas |-> << >>]
    [] image.form = "v2" /\ JsonParses(image) -> parse_services_v2(image.services)
    [] OTHER -> Defaults

(***************************************************************************)
(* service_registry.c                                                      *)
(***************************************************************************)
\* Mutant: the last entry is never used.
Register_offByOne(reg, name, handler, sla) ==
  IF Len(reg) < RegistrySize - 1
  THEN Append(reg, [name |-> name, handler |-> handler, sla |-> sla]) ELSE reg

\* When the registry is full the caller gets -ENOMEM, which main only prints.
Register(reg, name, handler, sla) ==
  IF Len(reg) < RegistrySize
  THEN Append(reg, [name |-> name, handler |-> handler, sla |-> sla]) ELSE reg

NoHandler == "none"

\* Every lookup takes the first entry of that name.
EntriesOf(name) == {i \in DOMAIN services : services[i].name = name}

\* Mutant: a service that was registered last is not searched.
Handler_short(name) ==
  LET at == EntriesOf(name) \ {Len(services)}
  IN  IF at = {} THEN NoHandler ELSE services[Min(at)].handler

\* ceell_service_get_handler
Handler(name) ==
  IF EntriesOf(name) = {} THEN NoHandler ELSE services[Min(EntriesOf(name))].handler

\* ceell_service_get_priority and _get_deadline
SlaOf(name) ==
  IF EntriesOf(name) = {} THEN DefaultSla ELSE services[Min(EntriesOf(name))].sla

Names == [i \in DOMAIN services |-> services[i].name]

(***************************************************************************)
(* main                                                                    *)
(***************************************************************************)
Init ==
  /\ pc = "config" /\ flash \in Image /\ config = Defaults /\ identity = FALSE
  /\ services = << >> /\ done = 0 /\ ready = {} /\ running = {} /\ failed = {}
  /\ svc_csv = << >> /\ sent = {} /\ answer = << >> /\ early = {}

\* Main goes from one step to the next.
Step(from, to) == pc = from /\ pc' = to
Fails(step)    == failed' = failed \cup {step}
Makes(objects) == ready' = ready \cup objects
Starts(thread) == running' = running \cup thread

LoadConfig ==
  /\ Step("config", "net")
  /\ config' = ceell_config_load(flash)
  /\ UNCHANGED <<identity, services, ready, running, failed>>

ceell_net_setup ==
  /\ \/ Step("net", "identity") /\ UNCHANGED failed
     \/ Step("net", "returned") /\ Fails("net")
  /\ UNCHANGED <<config, identity, services, ready, running>>

ceell_identity_init ==
  /\ Step("identity", "registry")
  /\ identity' = TRUE
  /\ UNCHANGED <<config, services, ready, running, failed>>

ceell_service_init ==
  /\ Step("registry", "services")
  /\ services' = << >> /\ Makes({"svc_mutex"})
  /\ UNCHANGED <<config, identity, running, failed>>

\* The configured services have no handler; those of version 2 have their SLA.
ConfiguredSla(i) == IF config.version = 2 THEN config.service_slas[i] ELSE DefaultSla

\* One turn of the loop over them, and its end.
RegisterConfigured ==
  /\ \/ /\ done < Len(config.services) /\ Step("services", "services")
        /\ services' =
             Register(services, config.services[done + 1], NoHandler, ConfiguredSla(done + 1))
        /\ done' = done + 1
     \/ /\ done = Len(config.services) /\ Step("services", "echo")
        /\ UNCHANGED <<services, done>>
  /\ UNCHANGED <<config, identity, ready, running, failed>>

RegisterEcho ==
  /\ Step("echo", "timing")
  /\ services' = Register(services, "echo", "echo", DefaultSla)
  /\ UNCHANGED <<config, identity, ready, running, failed>>

ceell_timing_init ==
  /\ Step("timing", "health") /\ Makes({"timing_mutex"})
  /\ UNCHANGED <<config, identity, services, running, failed>>

\* Mutant: a failure of the health monitor is fatal.
ceell_health_init_fatal ==
  /\ \/ Step("health", "safe") /\ Makes({"health_mutex"}) /\ UNCHANGED failed
     \/ Step("health", "returned") /\ Fails("health") /\ UNCHANGED ready
  /\ UNCHANGED <<config, identity, services, running>>

\* A failure of either is printed: health_update and safe_state do nothing then.
ceell_health_init ==
  /\ Step("health", "safe")
  /\ \/ Makes({"health_mutex"}) /\ UNCHANGED failed
     \/ Fails("health") /\ UNCHANGED ready
  /\ UNCHANGED <<config, identity, services, running>>

ceell_safe_state_init ==
  /\ Step("safe", "discovery")
  /\ \/ Makes({"safe_mutex"}) /\ UNCHANGED failed
     \/ Fails("safe") /\ UNCHANGED ready
  /\ UNCHANGED <<config, identity, services, running>>

ceell_discovery_init ==
  /\ \/ /\ Step("discovery", "start")
        /\ Makes({"peer_mutex", "sock"}) /\ UNCHANGED failed
     \/ \* no socket, or it cannot be bound
        /\ Step("discovery", "returned")
        /\ Makes({"peer_mutex"}) /\ Fails("discovery")
  /\ UNCHANGED <<config, identity, services, running>>

ceell_discovery_start ==
  /\ Step("start", "messaging") /\ Starts({"disc_tx", "disc_rx"})
  /\ UNCHANGED <<config, identity, services, ready, failed>>

MsgObjects == {"rsp_mutex", "msgqs"}
MsgThreads == {"msg_disp", "msg_handler"}

\* Mutant: the threads are started before the socket is opened.
ceell_messaging_init_threadsFirst ==
  /\ \/ Step("messaging", "sock") /\ Makes(MsgObjects) /\ Starts(MsgThreads)
     \/ Step("sock", "ota service") /\ Makes({"msg_sock"}) /\ UNCHANGED running
  /\ UNCHANGED <<config, identity, services, failed>>

ceell_messaging_init ==
  /\ \/ /\ Step("messaging", "ota service")
        /\ Makes(MsgObjects \cup {"msg_sock"}) /\ Starts(MsgThreads) /\ UNCHANGED failed
     \/ /\ Step("messaging", "returned")
        /\ Makes(MsgObjects) /\ Fails("messaging") /\ UNCHANGED running
  /\ UNCHANGED <<config, identity, services>>

RegisterOta ==
  /\ Step("ota service", "ota")
  /\ services' = Register(services, "ota", "ota", DefaultSla)
  /\ UNCHANGED <<config, identity, ready, running, failed>>

\* Fails when the running image cannot be confirmed; the node runs without OTA.
ceell_ota_init ==
  /\ Step("ota", "lifecycle")
  /\ \/ Makes({"check_trigger"}) /\ Starts({"ota"}) /\ UNCHANGED failed
     \/ Fails("ota") /\ UNCHANGED <<ready, running>>
  /\ UNCHANGED <<config, identity, services>>

MainStep ==
  /\ \/ RegisterConfigured
     \/ /\ \/ LoadConfig \/ ceell_net_setup \/ ceell_identity_init \/ ceell_service_init
           \/ RegisterEcho \/ ceell_timing_init \/ ceell_health_init \/ ceell_safe_state_init
           \/ ceell_discovery_init \/ ceell_discovery_start \/ ceell_messaging_init
           \/ RegisterOta \/ ceell_ota_init
        /\ UNCHANGED done
  /\ UNCHANGED <<flash, svc_csv, sent, answer, early>>

(***************************************************************************)
(* The threads, and the lifecycle loop, as users of what main has made     *)
(***************************************************************************)
Uses(thread, objects) == early' = early \cup ({thread} \X (objects \ ready))

\* The announcer reads the registry under its mutex, and sends without it.
TxRead ==
  /\ "disc_tx" \in running /\ identity /\ svc_csv = << >>
  /\ svc_csv' = Names /\ Uses("disc_tx", {"svc_mutex"})
  /\ UNCHANGED <<main, sent, answer>>

TxSend ==
  /\ svc_csv # << >>
  /\ sent' = sent \cup {svc_csv} /\ svc_csv' = << >> /\ Uses("disc_tx", {"sock"})
  /\ UNCHANGED <<main, answer>>

RxPacket ==
  /\ "disc_rx" \in running
  /\ Uses("disc_rx", {"sock", "peer_mutex"})
  /\ UNCHANGED <<main, svc_csv, sent, answer>>

\* A datagram is queued, or matched with the pending response.
Dispatch ==
  /\ "msg_disp" \in running
  /\ Uses("msg_disp", {"msg_sock", "rsp_mutex", "msgqs"})
  /\ UNCHANGED <<main, svc_csv, sent, answer>>

\* The check command of the OTA service raises the semaphore of the OTA thread.
Serving(handler, command) ==
  IF handler = "ota" /\ command = "check" THEN {"check_trigger"} ELSE {}

Handle(name, command) ==
  /\ "msg_handler" \in running
  /\ answer' = [name |-> name, handler |-> Handler(name)]
  /\ Uses("msg_handler", {"msgqs", "svc_mutex", "msg_sock"} \cup Serving(Handler(name), command))
  /\ UNCHANGED <<main, svc_csv, sent>>

\* One turn of the loop, its echo test included.
LifecycleTick ==
  /\ pc = "lifecycle"
  /\ Uses("main", {"timing_mutex", "peer_mutex", "rsp_mutex", "msg_sock"})
  /\ UNCHANGED <<main, svc_csv, sent, answer>>

Next == MainStep \/ TxRead \/ TxSend \/ RxPacket \/ Dispatch \/ LifecycleTick
        \/ \E n \in Name, command \in {"check", "other"} : Handle(n, command)

Spec == Init /\ [][Next]_vars

\* Main has no blocking call before its loop, and the announcer only sleeps.
FairSpec == Spec /\ WF_vars(MainStep) /\ WF_vars(TxRead \/ TxSend)

(***************************************************************************)
(* Properties.                                                             *)
(***************************************************************************)
Steps == {"config", "net", "identity", "registry", "services", "echo", "timing", "health",
          "safe", "discovery", "start", "messaging", "ota service", "ota", "lifecycle",
          "returned"}
Objects == {"svc_mutex", "timing_mutex", "health_mutex", "safe_mutex", "peer_mutex", "sock",
            "rsp_mutex", "msgqs", "msg_sock", "check_trigger"}
Threads == {"disc_tx", "disc_rx", "msg_disp", "msg_handler", "ota"}
Fatal   == {"net", "discovery", "messaging"}

Entry == [name : Name, handler : Range(Builtin) \cup {NoHandler},
          sla : [priority : 0..2, deadline_ms : 0..(Wide - 1)]]

TypeOK ==
  /\ pc \in Steps /\ identity \in BOOLEAN
  /\ flash \in Image /\ config.version \in 0..2
  /\ config.services \in Seq(Name) /\ Len(config.services) <= MaxServices
  /\ services \in Seq(Entry) /\ Len(services) <= RegistrySize /\ done \in 0..Len(config.services)
  /\ ready \subseteq Objects /\ running \subseteq Threads
  /\ failed \subseteq Fatal \cup {"health", "safe", "ota"}
  /\ \A csv \in sent \cup {svc_csv} : csv \in Seq(Name) /\ Len(csv) <= RegistrySize
  /\ early \subseteq (Threads \cup {"main"}) \X Objects

\* No thread, at any point of the boot or after a failed step, uses a mutex, queue or
\* socket that main has not made.  One use is known: the check command may come
\* before ceell_ota_init, or after it failed, and raise a semaphore that is not there.
ReadyBeforeUse == early \subseteq {<<"msg_handler", "check_trigger">>}

\* Every announcement lists all the configured services, in their order: the
\* announcer runs while main is still registering, but not while it registers these.
AnnouncesItsConfig == \A csv \in sent : IsPrefix(config.services, csv)

\* Though entries of the image are skipped, cut or repeated, and other services follow, the
\* registry answers for every configured name it holds with the priority, if there is such
\* a one, and the deadline, if it fits 16 bits, of the first entry that gives the name.
\* A name from an image without SLAs has the defaults.
Given(name) ==
  flash.services[Min({i \in DOMAIN flash.services : Fitted(flash.services[i].name) = name})]

SlaAsConfigured ==
  \A name \in Range(config.services) : EntriesOf(name) # {} =>
    IF flash.form = "v2"
    THEN /\ Given(name).priority \in 0..2 => SlaOf(name).priority = Given(name).priority
         /\ Given(name).deadline_ms \in 0..(Wide - 1) => SlaOf(name).deadline_ms = Given(name).deadline_ms
    ELSE SlaOf(name) = DefaultSla

\* Once a node has announced a service of its own, no request for it finds another
\* handler or none, whatever main is doing; unless the configuration has that name.
AnnouncedIsReached ==
  [][\A b \in Range(Builtin) \ Range(config.services) :
       (\E csv \in sent : b \in Range(csv)) /\ answer' # answer /\ answer'.name = b
         => answer'.handler = b]_vars

\* REQ-SAF-001: no failure of discovery, messaging or OTA keeps the node from its loop.
\* main returns when the init of either of the first two fails.
Subsystems == {"discovery", "messaging", "ota"}
DegradesGracefully == pc = "returned" => failed \cap Subsystems = {}

\* What the code does when these and net setup work: whatever else fails, and whatever
\* the started threads do meanwhile, the loop is reached, and what the configuration and
\* the two own services need, as far as the registry has room, is announced in the end.
\* DegradesGracefully says what is asked of the other boots.
AllServices == config.services \o Builtin
BootCompletes ==
  <>(\/ failed \cap Fatal # {}
     \/ /\ pc = "lifecycle"
        /\ SubSeq(AllServices, 1, Min({RegistrySize, Len(AllServices)})) \in sent)
=============================================================================
