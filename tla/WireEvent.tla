------------------------------- MODULE WireEvent -------------------------------
(***************************************************************************)
(* How the clients cap an event to the limits of the gateway: toWire in    *)
(* clients/react/obs-telemetry/src/models.ts and TelemetryEvent.toJson in  *)
(* clients/flutter/obs_telemetry/lib/src/models.dart, against the          *)
(* validators of TelemetryEvent in gateway/src/obs_gateway/ingest.py.      *)
(*                                                                         *)
(* Text is a sequence of UTF-16 units, as both languages count it.  A unit *)
(* stands for its kind, by what it costs in JSON: "a" one byte, "q" an     *)
(* escape of two, "c" a \u escape of six, "h" and "l" the halves of a      *)
(* character outside the BMP, together four bytes.                         *)
(***************************************************************************)
EXTENDS Integers, Sequences, FiniteSets, FiniteSetsExt, Functions, SequencesExt

CONSTANTS
    Inputs,         \* the events the application reports, with client, app and ids
    MaxLength,      \* field -> its limit, the same number in all three files
    MaxApp, MaxEntries, MaxKey, MaxValue,   \* the other limits
    MaxEventBytes,  \* MAX_EVENT_BYTES, maxEventBytes, settings.max_event_bytes
    FinalCap,       \* toJson's last cap of message and error (1000)
    Overhead,       \* bytes of braces, type, level and ids
    FieldBytes      \* bytes of a field around its text: comma, name and quotes

Units == {"a", "q", "c", "h", "l"}

Fields == DOMAIN MaxLength

\* What an application may report.
IsReport(e) ==
    /\ e.client \in {"react", "flutter"} /\ e.app \in Seq(Units)
    /\ e.context \in Seq([key : Seq(Units), value : Seq(Units)])
    /\ e.id \in {"none", "valid", "upper", "padded", "other"}
    /\ "message" \in DOMAIN e.text /\ DOMAIN e.text \subseteq Fields
    /\ \A f \in DOMAIN e.text : e.text[f] \in Seq(Units)

\* A cap of one would leave nothing of a key that begins with a wide character.
\* The last conjunct: what toJson never gives up fits the limit, at worst.
ASSUME WireAssumption ==
    /\ {"message", "error", "stack", "url", "app_version"} = Fields
    /\ MaxLength \in [Fields -> Nat]
    /\ {MaxApp, MaxEntries, MaxKey, MaxValue, MaxEventBytes, FinalCap, Overhead, FieldBytes}
          \subseteq Nat
    /\ MaxApp >= 1 /\ MaxKey >= 2 /\ FieldBytes <= 6 * FinalCap
    /\ Overhead + MaxApp + 3 * FieldBytes + 6 * (2 * FinalCap + MaxLength["app_version"])
          <= MaxEventBytes
    /\ \A e \in Inputs : IsReport(e)

VARIABLES
    event,  \* the event, the client library, and the app name
    wire,   \* the JSON object being built
    pc      \* the place in toWire or toJson

vars == <<event, wire, pc>>

React == event.client = "react"

-----------------------------------------------------------------------------
\* Text and its size.

Larger(x, y) == IF x >= y THEN x ELSE y

Smaller(x, y) == IF x <= y THEN x ELSE y

\* The first half of a character whose second half follows.
Paired(t, i) == i \in 1 .. Len(t) - 1 /\ t[i] = "h" /\ t[i + 1] = "l"

\* The unit is not half a character on its own.
Whole(t, i) == t[i] \in {"h", "l"} => Paired(t, i) \/ Paired(t, i - 1)

\* Python can encode the text in UTF-8.
Encodable(t) == \A i \in DOMAIN t : Whole(t, i)

\* Units that take two bytes: an escape, or one half of a character of four.
Doubled(t) == {i \in DOMAIN t : t[i] = "q" \/ Paired(t, i) \/ Paired(t, i - 1)}

\* Units written as a \u escape, as both encoders do with half a character alone.
Escaped(t) == {i \in DOMAIN t : t[i] \in {"c", "h", "l"}} \ Doubled(t)

TextBytes(t) == Len(t) + Cardinality(Doubled(t)) + 5 * Cardinality(Escaped(t))

\* Python counts characters.
Characters(t) == Len(t) - Cardinality({i \in DOMAIN t : Paired(t, i)})

\* The sum over the entries: each is paired with as many numbers as it takes bytes.
ContextBytes(c) ==
    Cardinality(UNION {{k} \X (1 .. TextBytes(k) + TextBytes(c[k]) + FieldBytes) : k \in DOMAIN c})

\* Bytes of a field of the object w, if it has that field.
FieldSize(w, f) == IF f \in DOMAIN w.text THEN FieldBytes + TextBytes(w.text[f]) ELSE 0

\* Bytes of the JSON of the object w.
Size(w) ==
    Overhead + Len(w.app) + ContextBytes(w.context)
      + FieldSize(w, "message") + FieldSize(w, "error") + FieldSize(w, "stack")
      + FieldSize(w, "url") + FieldSize(w, "app_version")

\* Mutant: may leave half a character at the end.
CapAnywhere(t, n) == SubSeq(t, 1, Smaller(n, Len(t)))

\* cap, _cap: the first n units; in TypeScript, no half character at the cut.
Cap(t, n) ==
    IF Len(t) <= n THEN t
    ELSE SubSeq(t, 1, IF React /\ n > 0 /\ t[n] = "h" THEN n - 1 ELSE n)

-----------------------------------------------------------------------------
\* The first step: every field is capped.

\* Context entries without an empty key, at most MaxEntries, key and value
\* capped.  Of keys that the cap makes equal, the last one stays.
CappedContext(entries) ==
    LET named == {i \in DOMAIN entries : entries[i].key # <<>>}
        kept  == {i \in named : Cardinality({j \in named : j <= i}) <= MaxEntries}
        At(k) == {i \in kept : Cap(entries[i].key, MaxKey) = k}
    IN  [k \in {Cap(entries[i].key, MaxKey) : i \in kept} |->
            Cap(entries[Max(At(k))].value, MaxValue)]

\* sanitizeApp replaces each invalid unit, and an empty name by 'web'; toJson
\* leaves out a name that is not valid.  "a" stands for the valid units.
App(app) ==
    IF React
    THEN LET cleaned == Cap([i \in DOMAIN app |-> "a"], MaxApp)
         IN  IF cleaned = <<>> THEN <<"a">> ELSE cleaned
    ELSE IF Range(app) = {"a"} THEN Cap(app, MaxApp) ELSE <<>>

\* validId, _validId: in lower case, of the right length and not all zeros;
\* only Dart trims it first.  Any other id is left out.
WireId(id) ==
    IF id \in {"valid", "upper"} \cup (IF React THEN {} ELSE {"padded"}) THEN "valid" ELSE "none"

Full ==
    [text |-> [f \in DOMAIN event.text |-> Cap(event.text[f], MaxLength[f])],
     context |-> CappedContext(event.context),
     app |-> App(event.app), id |-> WireId(event.id)]

Init ==
    /\ event \in Inputs
    /\ wire = [text |-> event.text, context |-> [k \in {} |-> <<>>], app |-> <<>>, id |-> "none"]
    /\ pc = "start"

CapFields ==
    /\ pc = "start" /\ pc' = "capped"
    /\ wire' = Full
    /\ UNCHANGED event

-----------------------------------------------------------------------------
\* The rest of toWire and toJson: the byte limit of the whole event.

Overflow == Size(wire) - MaxEventBytes

NoContext == [k \in {} |-> <<>>]

\* Both drop the context first; toWire returns at once when the event fits.
DropContext ==
    /\ pc = "capped"
    /\ IF Overflow > 0 THEN wire' = [wire EXCEPT !.context = NoContext] ELSE UNCHANGED wire
    /\ pc' = IF React /\ Overflow <= 0 THEN "done" ELSE "shortening"
    /\ UNCHANGED event

\* Mutant: shortens the error before the stack.
ErrorFirst == <<"error", "stack", "url", "message">>

\* The order in which toWire shortens the fields.
Order == <<"stack", "error", "url", "message">>

\* The fields that still have text to cut.
Cuttable == {i \in DOMAIN Order : Order[i] \in DOMAIN wire.text /\ wire.text[Order[i]] # <<>>}

\* Mutant: always leaves one unit.
ReactShortenToOne ==
    /\ pc = "shortening" /\ React
    /\ IF Overflow > 0 /\ Cuttable # {}
       THEN /\ LET f == Order[Min(Cuttable)] IN
                 wire' = [wire EXCEPT !.text[f] = Cap(@, Larger(1, Len(@) - Overflow))]
            /\ UNCHANGED pc
       ELSE pc' = "done" /\ UNCHANGED wire
    /\ UNCHANGED event

\* One turn of the loops of toWire.
ReactShorten ==
    /\ pc = "shortening" /\ React
    /\ IF Overflow > 0 /\ Cuttable # {}
       THEN /\ LET f == Order[Min(Cuttable)] IN
                 wire' = [wire EXCEPT !.text[f] = Cap(@, Larger(0, Len(@) - Overflow))]
            /\ UNCHANGED pc
       ELSE pc' = "done" /\ UNCHANGED wire
    /\ UNCHANGED event

\* toJson cuts the overflow from the stack.
FlutterCutStack ==
    /\ pc = "shortening" /\ ~React
    /\ IF Overflow > 0 /\ "stack" \in DOMAIN wire.text
       THEN wire' = [wire EXCEPT !.text["stack"] = Cap(@, Larger(0, Len(@) - Overflow))]
       ELSE UNCHANGED wire
    /\ pc' = "last"
    /\ UNCHANGED event

\* Mutant: only removes stack and url.
FlutterRemoveOnly ==
    /\ pc = "last"
    /\ IF Overflow > 0
       THEN wire' = [wire EXCEPT !.text = Restrict(@, DOMAIN @ \ {"stack", "url"})]
       ELSE UNCHANGED wire
    /\ pc' = "done"
    /\ UNCHANGED event

\* toJson's last resort: no stack, no url, and a shorter message and error.
FlutterCutRest ==
    /\ pc = "last"
    /\ IF Overflow > 0
       THEN wire' = [wire EXCEPT !.text =
               [f \in DOMAIN @ \ {"stack", "url"} |->
                   IF f \in {"message", "error"} THEN Cap(@[f], FinalCap) ELSE @[f]]]
       ELSE UNCHANGED wire
    /\ pc' = "done"
    /\ UNCHANGED event

Done == pc = "done" /\ UNCHANGED vars

Next == CapFields \/ DropContext \/ ReactShorten \/ FlutterCutStack \/ FlutterCutRest \/ Done

Spec == Init /\ [][Next]_vars /\ WF_vars(Next)

-----------------------------------------------------------------------------
\* The validators of the gateway.

SentTexts == Range(wire.text) \cup DOMAIN wire.context \cup Range(wire.context)

\* model_dump_json leaves out an empty message.
GatewayBytes ==
    Size(wire) - (IF wire.text["message"] = <<>> THEN FieldBytes ELSE 0)

\* The declared limits of the fields, and that of the whole event.
WithinLimits ==
    /\ \A f \in DOMAIN wire.text : Characters(wire.text[f]) <= MaxLength[f]
    /\ Range(wire.app) \subseteq {"a"} /\ Len(wire.app) <= MaxApp
    /\ wire.id \in {"none", "valid"}
    /\ Cardinality(DOMAIN wire.context) <= MaxEntries
    /\ \A k \in DOMAIN wire.context :
          /\ Characters(k) \in 1 .. MaxKey
          /\ Characters(wire.context[k]) <= MaxValue
    /\ GatewayBytes <= MaxEventBytes

\* The JSON parser turns the \u escape of half a character into a string that no
\* field accepts and encode() raises on: the event, and its batch, is refused.
GatewayAccepts == (\A t \in SentTexts : Encodable(t)) /\ WithinLimits

WireTypeOK ==
    /\ pc \in {"start", "capped", "shortening", "last", "done"}
    /\ "message" \in DOMAIN wire.text /\ DOMAIN wire.text \subseteq Fields
    /\ \A f \in DOMAIN wire.text : wire.text[f] \in Seq(Units)
    /\ \A k \in DOMAIN wire.context : k \in Seq(Units) /\ wire.context[k] \in Seq(Units)
    /\ wire.app \in Seq({"a"})

\* "The client libraries prevent this automatically" (docs/USER_MANUAL.md:822, of
\* 422): whatever is reported, the gateway accepts the event.
NeverRejected == pc = "done" => GatewayAccepts

\* "applying every gateway cap so a single event can never cause the batch to
\* be rejected" (models.ts): what is sent is within the limits, and every unit of
\* it encodes, but for a first half that Dart's caps leave at the end of a text.
RefusedOnlyForACut ==
    pc = "done" =>
        /\ WithinLimits
        /\ \A t \in SentTexts : \A i \in DOMAIN t :
              ~Whole(t, i) => ~React /\ i = Len(t) /\ t[i] = "h"

\* TypeScript never sends half a character: neither a cap nor a cut leaves one.
NoHalfCharacter ==
    (React /\ pc # "start") =>
        \A t \in SentTexts : t # <<>> => t[Len(t)] # "h"

\* The fields that are given up before f is touched: in TypeScript "`stack` is
\* shortened until it fits (and, for pathological input, `error`, `url` and
\* `message`)", in Dart the stack before everything else.
Before(f) ==
    CASE f = "stack" -> {}
      [] f # "stack" /\ (React => f = "error") -> {"stack"}
      [] f = "url" /\ React -> {"stack", "error"}
      [] OTHER -> {"stack", "error", "url"}

Without(fields) ==
    [Full EXCEPT !.context = NoContext,
                 !.text = [f \in DOMAIN @ |-> IF f \in fields THEN <<>> ELSE @[f]]]

\* The Flutter client cut the stack within a character, which may not have made
\* the event small enough.
StackHasWide == "stack" \in DOMAIN Full.text /\ \E i \in DOMAIN Full.text["stack"] :
                                                     Paired(Full.text["stack"], i)

\* Nothing is given up needlessly: the context is dropped only if the capped
\* event is too large, and a field loses more than its cap takes only if the
\* event would be too large with all that goes before it given up entirely; in
\* Flutter, also if the stack has characters that a cut may split.
OnlyAsNeeded ==
    pc = "done" =>
        /\ wire.context # Full.context => Size(Full) > MaxEventBytes
        /\ \A f \in DOMAIN Full.text :
              ~(f \in DOMAIN wire.text /\ wire.text[f] = Full.text[f])
                 => \/ Size(Without(Before(f))) > MaxEventBytes
                    \/ ~React /\ f # "stack" /\ StackHasWide

\* The loops of toWire end: each turn makes the event smaller or ends.
CappingEnds == <>(pc = "done")
=============================================================================
