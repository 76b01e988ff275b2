CONSTANTS
  Nmax_master = 2
  Station <- ThreeStations
  Npoll = 2
  Nmax_info_frames = 1
  Nretry_token = 1
  Tusage_timeout = 1
  Treply_delay = 2
  Treply_timeout = 4
  Tno_token = 5
  Tslot = 1
  Data <- RequestsAndBroadcasts
  MaxFaults = 1
  MaxJoins = 1
  MaxBacklog = 2
SPECIFICATION Spec
INVARIANTS TypeOK OneToken NoCollision PollsOnlyTheGap
PROPERTIES TokenNotDropped RingStays RingCloses TokenComesRound
