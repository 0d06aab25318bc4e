SPECIFICATION Spec
CONSTANTS
  docker = docker
  portainer = portainer
  proxy = proxy
  s1 = s1
  s2 = s2
  e1 = e1
  NoHost = NoHost
  Service = {docker, portainer}
  Host <- Chain
  Session = {s1, s2}
  Editor = {}
  DispatchMayFail = FALSE
INVARIANTS
  NoOrphans
