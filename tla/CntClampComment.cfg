SPECIFICATION Spec
CONSTANTS
  IntMax = 127
  Divisor = 4
  Rate = 5
  Bandwidths <- MCBandwidths
  MinRtts <- MCMinRtts
  Delays <- MCDelays
  Gains <- MCGains
INVARIANT ClampIsBdp
