----------------------------- MODULE MCLogLine -----------------------------
(* LogLine with messages of up to four units.                              *)
EXTENDS LogLine, SequencesExt

CONSTANT MaxUnits  (* bound: units of a message                           *)

Units == { <<"m">>, <<"[">>, <<"esc">>, <<"#", "033">>, <<"#">>, <<"sp">>, <<":">>, <<"hi", "lo">>,
             <<"T">>, <<"ERROR">> }

(* An escape sequence takes single bytes.                                  *)
MCMessages ==
    {m \in {FlattenSeq(u) : u \in UNION {[1 .. n -> Units] : n \in 1 .. MaxUnits}} :
       \A i \in DOMAIN m : m[i] = "ERROR" => Scan(m)[i - 1].mode = "text"}
=============================================================================
