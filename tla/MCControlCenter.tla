-------------------------- MODULE MCControlCenter --------------------------
(* Two computers that report the placeholder serial number of their maker, two devices on the
   console, and the calls that are studied together.                                        *)
EXTENDS ControlCenter

CONSTANTS m1, m2, placeholder

Study(on, m, r, e) == [on |-> on, machines |-> m, registrations |-> r, edits |-> e]

MCFocus == {Study({"enroll"}, {m1, m2}, 3, 1), Study({"enroll", "assign"}, {m1}, 2, 1),
            Study({"enroll", "assign"}, {m1}, 1, 3), Study({"tamper"}, {}, 0, 2),
            Study({"presence"}, {}, 0, 1), Study({"health"}, {}, 0, 0), Study({}, {}, 0, 0)}
MCMachine == {m1, m2}
Told(hw, serial) == [hw |-> hw, serial |-> serial]

MCIdentity ==
  [m \in MCMachine |-> IF m = m1 THEN {Told(m1, placeholder), Told(None, None)}
                       ELSE {Told(m2, placeholder), Told(None, placeholder)}]

Calls(kinds, atOnce, l, c) == [kinds |-> kinds, atOnce |-> atOnce, logins |-> l, commands |-> c]

MCStudies ==
  {Calls({}, 0, 1, 0), Calls({"live"}, 2, 2, 0), Calls({"live", "deep"}, 2, 1, 0), Calls({"live", "key"}, 1, 1, 0),
   Calls({"deep", "key"}, 2, 1, 0), Calls({"deep", "regenerate"}, 2, 1, 0),
   Calls({"live", "move", "evaluate"}, 2, 1, 0), Calls({"actions", "command"}, 2, 1, 1)}
=============================================================================
