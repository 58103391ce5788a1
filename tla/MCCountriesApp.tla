--------------------------- MODULE MCCountriesApp ---------------------------
(***************************************************************************)
(* Two continents and two names to type in.  The first list grows to three *)
(* countries, the shortest in which a move reorders the copy and the data  *)
(* controller differently; the second is there to stay unharmed.           *)
(***************************************************************************)
EXTENDS CountriesApp

CONSTANTS c1, c2

MCCountry      == {c1, c2}
MCBundle       == << <<c1>>, << >> >>
MCMaxCountries == << 3, 1 >>
=============================================================================
