----------------------------- MODULE MCCommands -----------------------------
(***************************************************************************)
(* Values for TLC: of the functions that write and run alike, one with all *)
(* its values.                                                             *)
(***************************************************************************)
EXTENDS Commands, TLC

ZeroGarbage == {0}
NoLines == {}
NoHabits == {}

Values(kind) ==
    CASE kind \in {"%u", "%i(u)", "%i(to)"} -> {<<3>>, <<UINT_MAX>>}
      [] kind = "%i"     -> {<<-3>>, <<3>>}
      [] kind = "bool"   -> {<<1>>}
      [] kind \in {"optional", "base"} -> {<<>>, <<1>>}
      [] kind \in {"mode", "tag", "gain"} -> {<<1>>, Unknown}
      [] kind = "names"  -> {<<1>>, <<1, -1>>, <<1, 2, 3>>}
      [] kind = "range"  -> {<<0, 3>>, <<3, UINT_MAX>>}
      [] kind = "frange" -> {<<0, 19>>, <<14, -1>>, <<14, 0>>}
      [] kind = "whence" -> {<<0, 3>>, <<1, 0>>, <<2, 0>>}
      [] kind = "seek"   -> {<<0, 16>>, <<0, -16>>, <<1, 16>>, <<1, -16>>}
      [] kind = "%f"     -> {<<16>>, <<-16>>}
      [] kind = "%.3f"   -> {<<14>>}
      [] OTHER           -> {<<1>>}

Alike(f) == {g \in Functions : g.kinds = f.kinds /\ g.runs = f.runs}

SomeChosen(f) ==
    IF f # CHOOSE g \in Alike(f) : TRUE THEN {}
    ELSE {f @@ [values |-> v] : v \in
            {w \in [DOMAIN f.kinds -> UNION {Values(f.kinds[i]) : i \in DOMAIN f.kinds}] :
                \A i \in DOMAIN f.kinds : w[i] \in Values(f.kinds[i])}}
=============================================================================
