---------------------------- MODULE MCToolchains ----------------------------
(* Two installations that want the same or different ones of two versions,  *)
(* for every language, in the worlds where something can go differently.    *)
EXTENDS Toolchains, TLC

CONSTANTS a, b

MCVersion == {1, 2}
MCWants == a :> {1, 2} @@ b :> {2}

Nothing == [v \in MCVersion |-> "absent"]
Without == <<>>

(* The three levels of language_version: left out, alone, and one over      *)
(* another.                                                                 *)
Configurations ==
    {<<Without, Without, Without>>,
     <<<<"system", "none">>, Without, Without>>,
     <<<<"explicit", "only-system">>, <<"explicit", "none">>, Without>>,
     <<<<"unspecified", "only-managed">>, Without, <<"system", "none">>>>,
     <<<<"system", "none">>, <<"default", "system">>, <<"unspecified", "only-system">>>>,
     <<Without, <<"system", "none">>, <<"explicit", "only-managed">>>>,
     <<<<"unspecified", "only-managed">>, <<"explicit", "none">>, Without>>,
     <<Without, Without, <<"unspecified", "system">>>>}

Of(language, configuration) ==
    [language |-> language,
     manifest |-> configuration[1], project |-> configuration[2], default |-> configuration[3],
     checksums |-> "warn-missing", listed |-> TRUE,
     remote |-> MCVersion, system |-> {}, loader |-> "usual", uv |-> "auto",
     tools |-> Nothing]

Languages == DOMAIN Language
Searching == Languages \ {"uv", "rustup"}
Checking == {"ruby", "mise", "rust", "uv"}
Silent == <<Without, Without, Without>>

MCWorld ==
    {[Of(l, g) EXCEPT !.system = s] : l \in Searching, g \in Configurations, s \in SUBSET MCVersion}
    \cup {[Of(l, Silent) EXCEPT !.checksums = k, !.listed = d, !.remote = r] :
            l \in Languages, k \in {"warn-missing", "required", "disabled"},
            d \in BOOLEAN, r \in {{1}, {2}, MCVersion}}
    \cup {[Of(l, Silent) EXCEPT !.tools = [@ EXCEPT ![2] = "damaged"]] : l \in Checking}
    \cup {[Of("uv", Silent) EXCEPT !.loader = d, !.uv = u, !.system = s, !.checksums = k] :
            d \in {"usual", "static-helps", "unusual"},
            u \in {"auto", "none", "archive", "pypi", "pip"},
            s \in {{}, {2}}, k \in {"required", "disabled"}}
    \cup {[Of("rustup", Silent) EXCEPT !.system = {2}]}
=============================================================================
