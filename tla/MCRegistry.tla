------------------------------ MODULE MCRegistry ------------------------------
(* Registry for TLC: entities that share keys and names, a camera, services, *)
(* and a second firmware of the device in each case.                         *)
EXTENDS Registry

Entity(d, k, n) == [domain |-> d, key |-> k, name |-> n]
Service(k, n) == [key |-> k, name |-> n]
Device(es, ss) == [entities |-> es, services |-> ss]

Profile(ds, does, objects, reports, epochs) ==
  [devices |-> ds, does |-> does, objects |-> objects, reports |-> reports,
   epochs |-> epochs]

\* A sensor and a number of one name and key; the number renamed, and a
\* sensor of its new name.  Both kinds of state have two fields.
Shared  == Device({Entity("sensor", 1, "n"), Entity("number", 1, "n")}, {})
Moved   == Device({Entity("number", 1, "m"), Entity("sensor", 2, "m")}, {})
Sensing == Device({Entity("sensor", 1, "n")}, {})
Filmed  == Device({Entity("camera", 1, "n")}, {})

Commanding == Profile({Shared, Moved}, {"command"}, 5, 0, 2)
Reading    == Profile({Shared, Moved}, {"read", "clear"}, 3, 2, 2)
Filming    == Profile({Filmed}, {"clear"}, 2, 4, 2)
Serving    == Profile({Device({}, {Service(1, "n")}), Device({}, {Service(2, "n"), Service(1, "m")})},
                      {"execute"}, 0, 0, 3)

AllProfiles == {Commanding, Reading, Filming, Serving}
Readers     == {Profile({Sensing}, {"read"}, 2, 2, 1)}

==============================================================================
