CONSTANT Zones = {Paris, Berlin, Tokyo}
SPECIFICATION Spec
INVARIANTS
  TypeOK
  GladysFollowsHost
  LostOnlyUnread
