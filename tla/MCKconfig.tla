------------------------------- MODULE MCKconfig -------------------------------
(***************************************************************************)
(* A Kconfig file with every kind of symbol and dependency.                *)
(*                                                                         *)
(*   config M  bool "M", option modules     config S  bool "S"             *)
(*   config T  tristate "T"                           depends on T         *)
(*   choice "C"                             config D  bool, default y if P *)
(*     config P  bool "P", imply S          config N  int "N" if S         *)
(*     config Q  bool "Q", depends on T,              default 2 if Q       *)
(*               select S                             default 1            *)
(*   endchoice                                        range 1 3 if P       *)
(***************************************************************************)
EXTENDS Kconfig, TLC

MCOrder == <<"M", "T", "C", "P", "Q", "S", "D", "N">>
MCHashOrder == <<"N", "Q", "D", "C", "S", "P", "M", "T">>
Numbers == {"1", "2", "3", "5"}
MCSymType == [x \in {"M", "C", "P", "Q", "S", "D"} |-> "bool"] @@ ("T" :> "tristate") @@ ("N" :> "int")
             @@ [x \in {"y", "m", "n"} \cup Numbers |-> "unknown"]
MCRank == [t \in {"y", "m", "n", "", "1", "2", "3", "5"} |->
             CASE t = "" -> 0 [] t = "1" -> 1 [] t = "2" -> 2 [] t = "3" -> 3 [] t = "5" -> 4
               [] t = "m" -> 5 [] t = "n" -> 6 [] t = "y" -> 7]
MCParsed == [t \in {"y", "m", "n", "", "1", "2", "3", "5"} |->
               LET v == CASE t = "1" -> 1 [] t = "2" -> 2 [] t = "3" -> 3 [] t = "5" -> 5 [] OTHER -> -1000
               IN [dec |-> v, hex |-> v, auto |-> v]]
Of(f, d) == [s \in Symbols |-> IF s \in DOMAIN f THEN f[s] ELSE d]
MCPrompts == Of([D |-> <<>>, P |-> <<Sym("C")>>, Q |-> <<Two("and", Sym("C"), Sym("T"))>>,
                 S |-> <<Sym("T")>>, N |-> <<Sym("S")>>], <<None>>)
MCDefaults == Of([D |-> <<[e |-> Sym("y"), cond |-> Sym("P")]>>,
                  N |-> <<[e |-> Sym("2"), cond |-> Sym("Q")], [e |-> Sym("1"), cond |-> None]>>], <<>>)
MCDirDep == Of([P |-> Sym("C"), Q |-> Two("and", Sym("C"), Sym("T")), S |-> Sym("T")], None)
MCRevDep == Of([C |-> Sym("m"), S |-> Two("and", Sym("Q"), Two("and", Sym("C"), Sym("T")))], None)
MCImplied == Of([S |-> Two("and", Sym("P"), Sym("C"))], None)
MCRanges == Of([N |-> [lo |-> "1", hi |-> "3", cond |-> Sym("P")]], [lo |-> "", hi |-> "", cond |-> None])
MCMembers == Of([C |-> <<"P", "Q">>], <<>>)
MCChoiceOf == Of([P |-> "C", Q |-> "C"], "")
MCRefs == [o \in Objs |-> {"N", "P"}]
=============================================================================
