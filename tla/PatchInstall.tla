---------------------------- MODULE PatchInstall ----------------------------
(***************************************************************************)
(* Start of an Onyx service: sitecustomize installs the wrapper's patches   *)
(* one after the other, before the application is imported.                 *)
(*                                                                          *)
(* A patch is a sequence of operations on upstream symbols.  "source"       *)
(* rebuilds a function from its source text, "wrap" binds a new callable    *)
(* over the present one, "set" changes a prompt constant in the module that *)
(* owns it, "both" in the owner and in the module that imported it by name. *)
(* The texts are left out; what each operation replaces is kept, and so is  *)
(* what it does when upstream no longer has the shape it expects.           *)
(***************************************************************************)
EXTENDS Patches

CONSTANTS
    MaxDeviations,  \* kinds of unmet requirements and early imports, together
    Bases           \* the sets of switches with which those are explored, and
                    \* lenient starts; a strict start without them has any set

VARIABLES
    service,    \* which sitecustomize runs
    strict,     \* WRAPPER_PATCH_STRICT
    options,    \* each switch: "unread", "on" or "off"
    status,     \* "installing", "serving" or "exit" (os._exit(78))
    at,         \* <<patch, operation>> to run next
    unmet,      \* what did not match an operation: "upstream", "setting"
    early,      \* modules loaded early
    layers,     \* per function, what was installed on it, innermost first
    owner,      \* per prompt constant, the patches in the owner's text
    consumer,   \* and in the text of the module that imported the name
    loaded,     \* modules already imported
    alias,      \* the loop functions process_message bound by name
    captured    \* the URL normalizer the Obscura crawler bound

vars == <<service, strict, options, status, at, unmet, early, layers, owner,
          consumer, loaded, alias, captured>>

Order == IF service = "api" THEN ApiOrder ELSE BackgroundOrder
Current == Order[at[1]]
Now == Current.ops[at[2]]

Installed(f) == {layers[f][i].by : i \in DOMAIN layers[f]}
Rebuilt(f) == \E i \in DOMAIN layers[f] : layers[f][i].source

Init ==
    /\ service \in {"api", "background", "control"}
    /\ strict \in BOOLEAN
    /\ options = [s \in Switches |-> "unread"]
    /\ status = IF service = "control" THEN "serving" ELSE "installing"
    /\ at = <<1, 1>>
    /\ unmet = {}
    /\ early = {}
    /\ layers = [f \in Functions |-> <<>>]
    /\ owner = [c \in Constants |-> {}]
    /\ consumer = [c \in Constants |-> {}]
    /\ loaded = {}
    /\ alias = [f \in Loops |-> <<>>]
    /\ captured = <<>>

-----------------------------------------------------------------------------
Leave == at' = <<at[1] + 1, 1>>
Advance == at' = <<at[1], at[2] + 1>>

(* An exception that leaves the patch. *)
Raised ==
    \/ /\ strict
       /\ status' = "exit" /\ UNCHANGED at
    \/ /\ ~strict /\ service = "background" /\ Current.name \in Guarded
       /\ Leave /\ UNCHANGED status
    \/ /\ ~strict /\ ~(service = "background" /\ Current.name \in Guarded)
       /\ status' = "serving" /\ UNCHANGED at

Warned == \/ strict /\ Raised
          \/ ~strict /\ UNCHANGED status /\ (IF Now.fail = "leave" THEN Leave ELSE Advance)

(* How far this start is from the pinned upstream and from valid settings.  *)
Deviations == Cardinality(unmet) + Cardinality(early)

(* Do the switches read so far leave one of Bases possible?                 *)
OfABase(read) ==
    \E on \in Bases : \A s \in Switches :
        read[s] # "unread" => (read[s] = "on" <=> s \in on)

bindings == <<layers, owner, consumer, loaded, alias, captured>>
setup == <<service, strict, options>>

(* A rebuild without _wrapper_patched_source starts from upstream's text. *)
LayerPristine(kind, name, over) ==
    IF kind = "wrap" THEN Append(over, [by |-> name, source |-> FALSE])
    ELSE <<[by |-> name, source |-> TRUE]>>

(* _patch_function_source: the text of an earlier rebuild is the base, so  *)
(* rebuilds accumulate, and a plain wrapper over the function is dropped.  *)
Layer(kind, name, over) ==
    IF kind = "wrap" THEN Append(over, [by |-> name, source |-> FALSE])
    ELSE Append(SelectSeq(over, LAMBDA l : l.source), [by |-> name, source |-> TRUE])

Sources(over) == {over[i].by : i \in {j \in DOMAIN over : over[j].source}}

Bind(f) == /\ layers' = [layers EXCEPT ![f] = Layer(IF Now.kind = "wrap" THEN "wrap" ELSE "source",
                                                    Current.name, @)]
           /\ UNCHANGED <<owner, consumer, loaded, alias, captured>>

(* A module's first import copies the names it takes from other modules. *)
Load(m) ==
    /\ loaded' = loaded \cup {m}
    /\ consumer' = [c \in Constants |->
          IF Consumer[c] = m /\ m \notin loaded THEN owner[c] ELSE consumer[c]]
    /\ alias' = IF m = "process_message" /\ m \notin loaded
                THEN [f \in Loops |-> layers[f]] ELSE alias

Stale(c) == Consumer[c] \in loaded /\ consumer[c] # owner[c]

SetText ==
    /\ owner' = [c \in Constants |-> IF c = Now.on THEN owner[c] \cup {Current.name} ELSE owner[c]]
    /\ consumer' = IF Now.kind = "set" THEN consumer
                   ELSE [c \in Constants |-> IF c = Now.on THEN owner'[c] ELSE consumer[c]]
    /\ UNCHANGED <<layers, loaded, alias, captured>>

(* The install chain accepts whatever it finds: no final validation. *)
AcceptableUnchecked == Now.kind = "fix" => ~Stale(Now.on)

(* What an operation requires of the state, beyond upstream's text. *)
Acceptable ==
    CASE Now.kind = "rebuild" ->
            Current.name = "prompt_stability" =>
               /\ Rebuilt(Now.on)
               /\ Sources(layers[Now.on])
                    \subseteq Sources(Layer("source", Current.name, layers[Now.on]))
      [] Now.kind = "fix"     -> ~Stale(Now.on)
      [] Now.kind = "validate" ->
            /\ \A c \in Stable : ~Stale(c)
            /\ \A f \in Loops : alias[f] = layers[f]
            /\ Rebuilt("construct_message_history")
            /\ "prompt_stability" \in Installed("run_llm_loop")
            /\ "prompt_stability" \in Installed("run_deep_research_llm_loop")
            /\ "prompt_stability" \in Installed("run_research_agent_call")
      [] OTHER -> TRUE

Running == status = "installing" /\ at[1] <= Len(Order)
Pending == Running /\ at[2] <= Len(Current.ops)
Enabled(op) == \A w \in op.when : options[w.switch] = w.is
Ruled(op) == \E w \in op.when : options[w.switch] \notin {"unread", w.is}

(* A switch is looked up in the environment by the first operation that     *)
(* depends on it.                                                           *)
ReadSwitch ==
    /\ Pending
    /\ \E w \in Now.when, value \in {"on", "off"} :
          /\ options[w.switch] = "unread"
          /\ options' = [options EXCEPT ![w.switch] = value]
    /\ (strict /\ Deviations = 0) \/ OfABase(options')
    /\ UNCHANGED <<service, strict, status, at, unmet, early, bindings>>

Apply ==
    /\ Pending /\ Enabled(Now) /\ Acceptable
    /\ \/ /\ Now.kind \in {"check", "setting", "validate"}
          /\ UNCHANGED bindings
       \/ /\ Now.kind \in {"wrap", "source", "rebuild"}
          /\ Bind(Now.on)
       \/ /\ Now.kind \in {"set", "both", "fix"}
          /\ SetText
       \/ /\ Now.kind = "import"
          /\ Load(Now.on)
          /\ UNCHANGED <<layers, owner, captured>>
       \/ /\ Now.kind = "capture"
          /\ captured' = layers["normalize_url"]
          /\ UNCHANGED <<layers, owner, consumer, loaded, alias>>
    /\ Advance
    /\ UNCHANGED <<setup, status, unmet, early>>

Refuse ==
    /\ Pending /\ Enabled(Now) /\ ~Acceptable
    /\ Raised
    /\ UNCHANGED <<setup, unmet, early, bindings>>

(* Upstream changed, so that the operation's text or signature is not       *)
(* there, or the setting it needs is invalid.                               *)
Unmet ==
    /\ Pending /\ Enabled(Now) /\ Now.fail # "no"
    /\ Deviations < MaxDeviations /\ OfABase(options)
    /\ \E kind \in {IF Now.kind = "setting" THEN "setting" ELSE "upstream"} \ unmet :
          unmet' = unmet \cup {kind}
    /\ IF Now.fail = "raise" THEN Raised ELSE Warned
    /\ UNCHANGED <<setup, early, bindings>>

Skip ==
    /\ Pending /\ Ruled(Now)
    /\ Advance
    /\ UNCHANGED <<setup, status, unmet, early, bindings>>

NextPatch ==
    /\ Running /\ ~Pending
    /\ Leave
    /\ UNCHANGED <<setup, status, unmet, early, bindings>>

Serve ==
    /\ status = "installing" /\ ~Running
    /\ status' = "serving"
    /\ UNCHANGED <<setup, at, unmet, early, bindings>>

(* An upstream module imported on behalf of a patch pulls another one in. *)
EarlyImport ==
    /\ Running /\ service = "api" /\ at[2] = 1
    /\ early = {} /\ Deviations < MaxDeviations /\ OfABase(options)
    /\ \E m \in Modules \ loaded :
          /\ early' = early \cup {m}
          /\ Load(m)
    /\ UNCHANGED <<setup, status, at, unmet, layers, owner, captured>>

Next == ReadSwitch \/ Apply \/ Refuse \/ Unmet \/ Skip \/ NextPatch \/ Serve \/ EarlyImport

Spec == Init /\ [][Next]_vars

-----------------------------------------------------------------------------
TypeOK ==
    /\ status \in {"installing", "serving", "exit"}
    /\ loaded \subseteq Modules /\ early \subseteq loaded
    /\ \A f \in Functions : layers[f] \in Seq([by : STRING, source : BOOLEAN])
    /\ \A c \in Constants : owner[c] \subseteq STRING

Position(name, f) == CHOOSE i \in DOMAIN layers[f] : layers[f][i].by = name

(* A strict service that accepts requests has every enabled patch in force: *)
(* no rebuild or rebinding erased an earlier one, the callers that bound    *)
(* the loops and prompts by name hold the patched ones, the URL limit is    *)
(* outside failure reporting, and the crawler's normalizer preserves URL    *)
(* identity.  The Python guidance is excluded when something loaded its     *)
(* consumer early: nothing checks that one.                                 *)
StrictServiceIsComplete ==
    TypeOK /\
    (strict /\ status = "serving" /\ service # "control" =>
        /\ \A p \in Range(Order) : \A op \in Range(p.ops) :
              Enabled(op) /\ op.kind \in {"wrap", "source", "rebuild"} =>
                 p.name \in Installed(op.on)
        /\ \A c \in Constants :
              Stale(c) => c = "python_guidance" /\ Consumer[c] \in early
        /\ service = "api" =>
              /\ \A f \in Loops : alias[f] = layers[f]
              /\ Position("failure_reporting", "open_url_run")
                    < Position("url_limit", "open_url_run")
              /\ options["obscura"] = "on" => captured = layers["normalize_url"])

(* os._exit(78) is reserved for a strict start that met upstream drift, an  *)
(* invalid setting or a module loaded before its patch: with valid settings *)
(* and the pinned upstream no combination of switches stops a service, and  *)
(* a lenient start is never stopped.                                        *)
ExitIsJustified == status = "exit" => strict /\ (unmet # {} \/ early # {})
=============================================================================
