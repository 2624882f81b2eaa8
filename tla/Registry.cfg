SPECIFICATION Spec
CONSTANTS
  Namespaces <- MCNamespaces
  Names = {"n1", "n2"}
  Values = {"v1", "v2"}
  Distributions = {"d1", "d2"}
  GeneratorPlugins <- MCGeneratorPlugins
  SinkPlugins <- MCSinkPlugins
  MaxLoads = 2
  Builtin = "builtin"
  Nothing = "nothing"
INVARIANTS RecordsTellTheTruth NoneForgotten
PROPERTY FirstComeFirstServed
