------------------------------ MODULE MC_Regex ------------------------------
(***************************************************************************)
(* The combinators' client, and the OCM grammar over a small OCI grammar:  *)
(* names and hosts are letter runs, ports and tags alphanumeric runs,      *)
(* repositories letter-or-digit runs separated by "/", as in the OCI       *)
(* distribution grammar without dots, dashes and underscores.              *)
(***************************************************************************)
EXTENDS OCMGrammar

\* The client passes only texts built by the package
MCRaw == {}

MCChars == {"a", "1", "/", ":"}

Run(c) == <<c, "+">>
MCDomainRegexp == Run("[A-Za-z]")
MCDomainPortRegexp ==
  MCDomainRegexp \o <<"(?:", ":", "[0-9]", "+", ")", "?">>
MCRepositoryRegexp ==
  Run("[A-Za-z0-9]") \o <<"(?:", "/", "[A-Za-z0-9]", "+", ")", "*">>
MCTagRegexp == Run("[A-Za-z0-9]")
MCSlash == <<"/">>
MCColon == <<":">>

\* CTF paths of up to three characters, followed by nothing, a component,
\* a component version, or a bare name that is no component
MCSuffixes == {<<>>, <<"/", "/", "a", "/", "a">>,
               <<"/", "/", "a", "/", "1", ":", "1">>, <<"/", "/", "a">>}

MCTypeNames == {NONE, <<"a">>}
MCHosts == {<<"a">>, <<"a", ":", "1">>}
MCSubPaths == {NONE, <<"1">>, <<"a", "/", "1">>}
MCComponents == {<<"a", "/", "a">>, <<"a", "/", "1", "/", "a">>}
MCVersions == {NONE, <<"1">>}

=============================================================================
