-------------------------------- MODULE MCConf --------------------------------
(* Instances of Conf for TLC. *)
EXTENDS Conf

CONSTANTS p1, p2

Adapter(value) == [name |-> "client:adapter", value |-> value]
Path(value)    == [name |-> "client:path", value |-> value]

\* Two configurations of one size, a longer one that defines a name twice, one
\* with a syntax error after a good line, and an empty file.
MCTexts == {
    <<Adapter("unsock"), Path(p1)>>,
    <<Adapter("tcp"), Path(p2)>>,
    <<Adapter("unsock"), Path(p1), Path(p2)>>,
    <<Adapter("unsock"), Bad>>,
    <<>>}
=============================================================================
