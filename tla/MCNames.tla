------------------------------ MODULE MCNames ------------------------------
(* Bytes are NUL, which stands for the delimiters of a URI, `=' and two    *)
(* letters; numbers have up to three bytes.                                *)
EXTENDS Names, TLC

Letters == {2, 3}
Delimiters == {0}

Segment(type, parameter, bytes) ==
    [type |-> type, parameter |-> parameter, bytes |-> bytes]

(* A parameter that is kept in the text and one that is not, and a value   *)
(* that needs its label for a `='                                          *)
Segments ==
    { Segment(NAME, <<3>>, <<0>>), Segment(NAME, <<>>, <<2>>),
      Segment(CHUNKMETA, None, <<1>>) }

Strings == {<<>>}

(* No path, an empty segment, a number with a parameter, an abbreviation   *)
(* with an escaped NUL as its parameter, and labels that are not valid     *)
Texts ==
    { <<>>, << <<>> >>,
      << <<Decimal(APP0), Colon, Decimal(1), Equal>> >>,
      << <<Word("C"), Colon>> \o Bytes(<<0>>) \o <<Equal>> >>,
      << <<Equal>> >>, << <<Word("Meta"), Equal>> >> }

(* Of full width *)
Numbers == {16}

(* Which buffer it is does not matter, only who else has it *)
Held(n) ==
    [i \in DOMAIN names[n] |->
        <<names[n][i].type, names[n][i].parameter, value[names[n][i].value],
          {m \in Live : names[n][i].value \in CellsOf(names[m])}>>]

NamesView == <<[n \in Live |-> Held(n)], family>>

NameSymmetry == Permutations(Name)
=============================================================================
