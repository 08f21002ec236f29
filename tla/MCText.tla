-------------------------------- MODULE MCText --------------------------------
(***************************************************************************)
(* TLC instance of EStream and of the conversions that read from one.  The *)
(* two do not interact: a behaviour either runs a stream against its peer  *)
(* or takes one conversion.                                                *)
(***************************************************************************)
EXTENDS EStream, Formats

MCInputs == {<<1, 1, 2, 1>>, <<2, 1, 1>>, <<1, 2, 2, 1, 1>>}
MCUntils == {{}, {2}}

Texts(chars, n) == UNION {[1..k -> chars] : k \in 0..n}

TaskSubjects ==
    LET Two(links, sink, criteria, chars, n, seconds) ==
            {[kind |-> "task", links |-> links, sink |-> sink, criteria |-> criteria,
              texts |-> <<t, u>>] : t \in Texts(chars, n), u \in seconds}
        comma == Until({","}, TRUE)
        plain == {Chars("a,")}
        chains == {<<Link("lc", <<>>, FALSE)>>, <<Link("uc", <<>>, FALSE)>>,
                   <<Link("disallow", Chars("a"), FALSE)>>,
                   <<Link("disallow", Chars("a"), TRUE)>>,
                   <<Link("allow", Chars("a,"), FALSE)>>, <<Link("allow", Chars("a,"), TRUE)>>,
                   <<Link("lc", <<>>, FALSE), Link("disallow", Chars("a"), FALSE)>>}
    IN  UNION {Two(links, "collect", comma, {"a", "A", ","}, 3, plain) : links \in chains}
        \cup Two(<<>>, "trim", comma, {"a", " ", ","}, 5, {Chars("a a,"), Chars("  a ,")})
        \cup Two(<<>>, "trim", Until({" "}, TRUE), {"a", " "}, 3, plain)
        \cup Two(<<>>, "extract", comma, {"\"", "a", " ", ","}, 4, {Chars("\"a\" ,"), Chars(",")})
        \cup Two(<<>>, "extract", Until({"\"", ","}, TRUE), {"\"", "a", ","}, 4, plain)
        \cup UNION {Two(links, "extract", comma, {"\"", "a", ","}, 4, {Chars("\"a\",")}) :
                     links \in {<<Link("allow", Chars("a\""), FALSE)>>,
                               <<Link("allow", Chars("\","), TRUE)>>,
                               <<Link("disallow", Chars("a"), FALSE)>>,
                               <<Link("uc", <<>>, FALSE), Link("disallow", Chars("a,"), FALSE)>>}}
        \cup UNION {Two(links, "trim", comma, {"a", " ", ","}, 4, plain) :
                     links \in {<<Link("uc", <<>>, FALSE)>>, <<Link("disallow", Chars(" "), FALSE)>>,
                               <<Link("disallow", Chars(","), FALSE)>>}}
        \cup UNION {Two(<<Link("exact", Chars("ab"), strict)>>, "collect", Size(2),
                        {"a", "b"}, 3, {Chars("ab")}) : strict \in BOOLEAN}

NumberSubjects ==
    {[kind |-> "number", call |-> reader, text |-> text, n |-> n, until |-> {";"}] :
        reader \in {"natural", "natural_size", "natural_until", "decimal", "decimal_size",
                  "decimal_until"},
        text \in Texts({"1", "0", ".", ";"}, 4) \cup Texts({"1", "."}, 6)
                 \cup {t \o <<";">> : t \in Texts({"1", "."}, 6)}, n \in {0, 2}}

JsonSubjects ==
    LET leaves == {Null, Boolean(TRUE), Boolean(FALSE), NumberValue(4, <<>>),
                   NumberValue(0, <<"2">>), StringValue(<<"]">>), StringValue(<<>>)}
        lists == UNION {[1..n -> leaves] : n \in 0..2}
        a == <<"a">>
        b == <<"b">>
        Of(values, depth) ==
            {ArrayOf(values, depth), ObjectOf(SubSeq(<<a, b>>, 1, Len(values)), values, depth)}
        escaped == {StringValue(<<"\\", "\"">>), StringValue(<<"\\", "n">>),
                    StringValue(<<"\\", "u", "4", "1">>)}
        flat == UNION {Of(values, 0) : values \in lists \cup {<<v>> : v \in escaped}
                                                     \cup {<<v, Null>> : v \in escaped}}
        inner == UNION {Of(values, 1) : values \in {<<>>, <<NumberValue(4, <<>>)>>,
                                                    <<Boolean(TRUE), Null>>}}
        nested == UNION {Of(<<v>>, 0) \cup Of(<<v, Null>>, 0) : v \in inner}
        deep == UNION {Of(<<v>>, 0) : v \in UNION {Of(<<ArrayOf(<<>>, 2)>>, 1)}}
        Forms(tree, gap) ==
            {[kind |-> "json", tree |-> tree, gap |-> gap, form |-> form, length |-> 0] :
                form \in {"whole", "closed"}}
            \cup {[kind |-> "json", tree |-> tree, gap |-> gap, form |-> "cut", length |-> n] :
                n \in 0..(Len(Rendered(tree, gap)) - 1)}
    IN  UNION {Forms(tree, gap) : tree \in flat \cup nested \cup deep, gap \in {<<>>, <<" ">>}}

FormatSubjects ==
    LET Spec(sign, width, c) == [sign |-> sign, width |-> width, c |-> c]
        Argument(spec, value) == [kind |-> "argument", spec |-> spec, value |-> value]
        Reference(n, spec) == [kind |-> "reference", n |-> n, spec |-> spec]
        Literal(chars) == [kind |-> "literal", chars |-> Chars(chars)]
        Plain1(c) == Spec(<<>>, NoWidth, c)
        signs == {<<>>, <<"+">>, <<"-">>}
        signed == {Spec(sign, width, "d") : sign \in signs, width \in {NoWidth, 0, 2, 5}}
        unsigned == {Spec(<<>>, width, c) : width \in {NoWidth, 1, 3}, c \in {"u", "x", "X"}}
        numbers == {Argument(spec, v) : spec \in signed, v \in {0, 7, -12, 1003, -345}}
                   \cup {Argument(spec, v) : spec \in unsigned, v \in {0, 9, 171}}
        texts == {Argument(Plain1(c), Chars(v)) : c \in {"", "s", "t"}, v \in {"k", "a{", "\\}"}}
                 \cup {Argument(Plain1("b"), TRUE), Argument(Plain1("c"), "$")}
        cased == {Argument(Plain1(c), Chars(v)) : c \in CaseModified, v \in {"LmAo", "z"}}
                 \cup {Reference(1, <<Plain1("su")>>)}
        literals == {Literal("x"), Literal("}"), Literal("\\y"), [kind |-> "escape", c |-> "{"],
                     [kind |-> "escape", c |-> "}"]}
        references == {Reference(n, spec) : n \in 0..3, spec \in {<<>>} \cup
                          {<<s>> : s \in {Plain1("s"), Plain1("d"), Plain1("X"),
                                          Spec(<<"+">>, 5, "d")}}}
        few == {Argument(Plain1("d"), -12), Argument(Plain1("x"), 171), Reference(2, <<>>),
                Argument(Plain1(""), Chars("k")), Reference(1, <<Spec(<<"-">>, 4, "d")>>),
                [kind |-> "escape", c |-> "{"]}
        any == numbers \cup texts \cup cased \cup literals \cup references
        pieces == {<<p>> : p \in any} \cup (few \X any) \cup (any \X few) \cup (few \X few \X few)
    IN  {[kind |-> "format", pieces |-> ps, raw |-> <<>>] : ps \in pieces}
        \cup {[kind |-> "format", pieces |-> <<>>, raw |-> Chars(r)] : r \in {"{", "\\", "{<a}",
                "{<7}", "{<", "x{<1,d}"}}
        \cup {[kind |-> "format", pieces |-> <<Argument(Plain1("c"), "$")>>, raw |-> Chars(r)] :
                r \in {"{<103f}", "{<1,af}", "{<1,X}", "{<2}", "{<1", "{<1,"}}

(* Days around the ends of months and years, leap and not, at their ends.  *)
DateSubjects ==
    LET Date(now, offset, form, raw) ==
            [kind |-> "date", now |-> now, offset |-> offset, form |-> form, raw |-> raw]
        forms == {"READABLE", "ISO8601", "ISO8601_READABLE"}
        days == {DaysFromCivil(y, d[1], d[2]) :
                    y \in {1970, 1971, 1972, 2000, 2024, 2036},
                    d \in {<<1, 1>>, <<2, 28>>, <<3, 1>>, <<6, 30>>, <<12, 31>>}}
                \cup {DaysFromCivil(2000, 2, 29), DaysFromCivil(2023, 10, 9)}
        bad == {<<"READABLE", "Foo 1 1970, 00:00:00 Z">>, <<"READABLE", "Jan 32 1970, 00:00:00 Z">>,
                <<"READABLE", "Jan 1 1969, 00:00:00 Z">>, <<"READABLE", "Jan 1 1970 00:00:00 Z">>,
                <<"READABLE", "Jan 1 1970, 24:00:00 Z">>, <<"READABLE", "Jan 1 1970, 00:00:00 +5">>,
                <<"READABLE", "Jan 1 1970, 00:00:00">>, <<"ISO8601", "19701301T000000Z">>,
                <<"ISO8601", "19700101T006000Z">>, <<"ISO8601", "19700101T000000">>,
                <<"ISO8601_READABLE", "1970-00-01T00:00:00Z">>,
                <<"ISO8601_READABLE", "1970-01-001T00:00:00Z">>}
    IN  {Date(86400 * day + second, 0, form, <<>>) :
            day \in days, second \in {0, 86399, 43261}, form \in forms}
        \cup {Date(1700000000, offset, form, <<>>) : offset \in OFFSETS \cup {7}, form \in forms}
        \cup {Date(0, 0, b[1], Chars(b[2])) : b \in bad}

RecordSubjects ==
    LET CSV(type, rows, quoted, end, has_header) ==
            [kind |-> "csv", type |-> type, rows |-> rows, quoted |-> quoted, end |-> end,
             has_header |-> has_header, separator |-> ","]
        Rows(fields) == UNION {[1..n -> UNION {[1..k -> fields] : k \in 1..2}] : n \in 1..2}
        plain == {<<>>, <<"a">>}
        quotes == {<<"\"">>, <<"b", ",">>, <<"\"", "c">>}
        doubles == {<<0, <<>>>>, <<12, <<"5">>>>}
        two == {r \in Rows(plain) : Len(r) = 2}
        ends == {<<"\n">>, <<"\r", "\n">>}
        sets == {<<"a">>, <<"b">>}
        values == {<<>>, <<"1">>, <<"x", " ">>}
        pairs == {<<>>} \cup {<<<<k, v>>>> : k \in sets, v \in values}
                 \cup {<<<<<<"a">>, v>>, <<<<"b">>, w>>>> : v, w \in values}
    IN  {CSV("string", rows, FALSE, end, h) : rows \in two, end \in ends, h \in BOOLEAN}
        \cup {CSV("string", rows, TRUE, end, FALSE) : rows \in Rows(quotes), end \in ends}
        \cup {CSV("double", rows, FALSE, <<"\n">>, h) : rows \in Rows(doubles), h \in BOOLEAN}
        \cup {[kind |-> "pairs", pairs |-> p, delim |-> delim, missing |-> m] :
                 p \in pairs, delim \in {";", "\n"}, m \in 0..2}
        \cup {[kind |-> "base64", bytes |-> b] : b \in Texts({0, 77, 130, 255}, 4)}

MCSubjects == TaskSubjects \cup NumberSubjects \cup JsonSubjects \cup FormatSubjects
              \cup DateSubjects \cup RecordSubjects

Stream == [kind |-> "stream"]

TextInit ==
    /\ EStreamInit
    /\ \/ subject = Stream /\ outcome = <<>>
       \/ ConversionInit /\ memory /\ input = CHOOSE i \in Inputs : TRUE

TextNext ==
    \/ subject = Stream /\ EStreamNext /\ UNCHANGED conversion_vars
    \/ subject # Stream /\ (Convert \/ ConvertFormats) /\ UNCHANGED estream_vars

TextSpec == TextInit /\ [][TextNext]_<<estream_vars, conversion_vars>> /\ EStreamFairness
=============================================================================
