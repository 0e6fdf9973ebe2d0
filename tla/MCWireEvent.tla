----------------------------- MODULE MCWireEvent -----------------------------
(***************************************************************************)
(* Limits scaled down in proportion, and events around them.               *)
(***************************************************************************)
EXTENDS WireEvent

MCMaxLength == [message |-> 2, error |-> 2, stack |-> 4, url |-> 2, app_version |-> 1]

Characters4 == {<<"a">>, <<"q">>, <<"c">>, <<"h", "l">>}

Words(n) == UNION {{FlattenSeq(s) : s \in [1 .. k -> Characters4]} : k \in 0 .. n}

\* A field that the event does not have.
Absent == <<"absent">>

Texts(message, error, stack, url, version) ==
    {Restrict(t, {f \in DOMAIN t : t[f] # Absent}) :
        t \in [message : message, error : error, stack : stack, url : url, app_version : version]}

Entry(key, value) == [key |-> key, value |-> value]

\* An empty key, keys that a cap of 2 makes equal, and values over the cap of 2.
Entries == {Entry(<<>>, <<"a">>), Entry(<<"a", "a", "a">>, <<"a", "h", "l">>),
            Entry(<<"a", "a", "q">>, <<"c">>), Entry(<<"h", "l", "a">>, <<"a">>)}

SomeEntries == <<Entry(<<"a">>, <<"c">>)>>

\* Texts of any kind around the limits.
TextInputs ==
    [client : {"react", "flutter"}, app : {<<"a">>}, id : {"valid"},
     context : {<<>>, SomeEntries},
     text : Texts(Words(2) \cup {<<"a", "h", "l">>}, {Absent, <<"a">>, <<"c", "c">>},
                  Words(3) \cup {Absent}, {Absent, <<"q">>, <<"c", "c">>}, {Absent})]

\* Names, ids and contexts of any kind.
OtherInputs ==
    [client : {"react", "flutter"}, app : Words(2) \cup {<<"a", "a", "a">>},
     id : {"none", "valid", "upper", "padded", "other"},
     context : UNION {[1 .. n -> Entries] : n \in 0 .. 3},
     text : Texts({<<>>, <<"c", "c">>}, {Absent}, {<<"a", "a">>}, {Absent},
                  {Absent, <<"q", "q">>})]

MCInputs == TextInputs \cup OtherInputs
=============================================================================
