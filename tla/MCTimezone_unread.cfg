CONSTANT Zones = {Paris, Berlin}
SPECIFICATION Spec
INVARIANT ChosenZoneKept
