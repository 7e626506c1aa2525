SPECIFICATION FirewallSpec
CONSTANTS
  Hosts = {h1, h2}
  NoHost = NoHost
  MaxCalls = 3
  Ifaces = {eth0, wlan0}
  Tun = Tun
  NoIface = NoIface
  MaxSetups = 4
INVARIANTS FirewallTypeOK EnabledBlocks OnlyExemptPass DisabledPasses NATInPlace NATRemoved
