\* Clusters of up to two nodes and two pods: totals, tables, reports and exit codes.
SPECIFICATION CSpec
CONSTANTS
  Nodes <- MCNodes
  Pods <- MCPods
  Namespaces <- MCNamespaces
  Groups <- MCGroups
  Allocatable <- MCAllocatable
  NodeUsage <- MCNodeUsage
  Requests <- MCRequests
  PodUsage <- MCPodUsage
  Null = Null
  Blank = Blank
INVARIANTS
  TypeOK
  GroupsAreTheirNodes
  GroupsGetTheirPods
  TotalsAddUp
  NamespacesAreTheirPods
  GroupsSettled
  ScopesAgree
  GroupsMakeUpNamespaces
  FormatsAgree
  ExitTells
\* The process exits.
CHECK_DEADLOCK FALSE
