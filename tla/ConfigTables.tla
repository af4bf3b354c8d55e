---------------------------- MODULE ConfigTables ----------------------------
(***************************************************************************)
(* The generated tables of pkg/config: which resource types the gateway    *)
(* knows (collections), their names (gvk, gvr, kind, kubetypes), the       *)
(* client that reads or writes each (kubeclient, crdclient) and what a     *)
(* typed object becomes (translationMap).  Every table is keyed by the     *)
(* identifier the generator gives a type; an alias of an older version is  *)
(* the identifier followed by _ and the version.                           *)
(***************************************************************************)
EXTENDS Naturals, FiniteSets

CoreGroup == ""
Gw  == "gateway.networking.k8s.io"
Inf == "inference.networking.k8s.io"

(* Two parts of a table; written out because the prover knows nothing of @@. *)
Joined(f, g) ==
    [id \in DOMAIN f \cup DOMAIN g |->
        IF id \in DOMAIN f THEN f[id] ELSE g[id]]

(* resource.Builder: BuildNoValidate keeps group, version and kind as the   *)
(* gvk; flags holds ClusterScoped, Builtin and a StatusType that is set.    *)
Row(group, version, kind, plural, aliases, flags) ==
    [group |-> group, version |-> version, kind |-> kind, plural |-> plural,
     aliases |-> aliases, flags |-> flags]

BuiltinRow(group, kind, plural, flags) ==
    Row(group, "v1", kind, plural, {}, flags \cup {"builtin"})

RowsBtoE == [
    BackendTLSPolicy |-> Row(Gw, "v1", "BackendTLSPolicy",
                             "backendtlspolicies", {}, {"status"}),
    ConfigMap     |-> BuiltinRow(CoreGroup, "ConfigMap", "configmaps", {}),
    DaemonSet     |-> BuiltinRow("apps", "DaemonSet", "daemonsets", {}),
    Deployment    |-> BuiltinRow("apps", "Deployment", "deployments", {}),
    EndpointSlice |-> BuiltinRow("discovery.k8s.io", "EndpointSlice",
                                 "endpointslices", {}),
    Endpoints     |-> BuiltinRow(CoreGroup, "Endpoints", "endpoints", {})]

RowsEtoK == [
    EnvoyFilter   |-> Row("networking.istio.io", "v1alpha3", "EnvoyFilter",
                          "envoyfilters", {}, {"status"}),
    GRPCRoute     |-> Row(Gw, "v1", "GRPCRoute", "grpcroutes",
                          {"v1alpha2"}, {"status"}),
    GatewayClass  |-> Row(Gw, "v1", "GatewayClass", "gatewayclasses",
                          {"v1alpha2", "v1beta1"}, {"cluster", "status"}),
    HTTPRoute     |-> Row(Gw, "v1", "HTTPRoute", "httproutes",
                          {"v1alpha2", "v1beta1"}, {"status"}),
    InferencePool |-> Row(Inf, "v1", "InferencePool", "inferencepools",
                          {}, {"status"}),
    KubernetesGateway |-> Row(Gw, "v1", "Gateway", "gateways",
                              {"v1alpha2", "v1beta1"}, {"status"})]

RowsNtoS == [
    Namespace      |-> BuiltinRow(CoreGroup, "Namespace", "namespaces",
                                  {"cluster"}),
    Node           |-> BuiltinRow(CoreGroup, "Node", "nodes", {"cluster"}),
    Pod            |-> BuiltinRow(CoreGroup, "Pod", "pods", {}),
    ReferenceGrant |-> Row(Gw, "v1beta1", "ReferenceGrant",
                           "referencegrants", {"v1alpha2"}, {}),
    Secret         |-> BuiltinRow(CoreGroup, "Secret", "secrets", {}),
    Service        |-> BuiltinRow(CoreGroup, "Service", "services",
                                  {"status"}),
    ServiceAccount |-> BuiltinRow(CoreGroup, "ServiceAccount",
                                  "serviceaccounts", {}),
    StatefulSet    |-> BuiltinRow("apps", "StatefulSet", "statefulsets", {})]

RowsTtoX == [
    TCPRoute   |-> Row(Gw, "v1alpha2", "TCPRoute", "tcproutes",
                       {}, {"status"}),
    TLSRoute   |-> Row(Gw, "v1alpha2", "TLSRoute", "tlsroutes",
                       {}, {"status"}),
    UDPRoute   |-> Row(Gw, "v1alpha2", "UDPRoute", "udproutes",
                       {}, {"status"}),
    WasmPlugin |-> Row("extensions.istio.io", "v1alpha1", "WasmPlugin",
                       "wasmplugins", {}, {"status"}),
    XBackendTrafficPolicy |->
        Row("gateway.networking.x-k8s.io", "v1alpha1",
            "XBackendTrafficPolicy", "xbackendtrafficpolicies",
            {}, {"status"})]

SchemaRows == Joined(Joined(RowsBtoE, RowsEtoK), Joined(RowsNtoS, RowsTtoX))

(* Schemas.All and the schema sets the stores are built from.               *)
All == DOMAIN SchemaRows

Kube ==
    {"BackendTLSPolicy", "ConfigMap", "DaemonSet", "Deployment",
     "EndpointSlice", "Endpoints", "GRPCRoute", "GatewayClass", "HTTPRoute",
     "InferencePool", "KubernetesGateway", "Namespace", "Node", "Pod",
     "ReferenceGrant", "Secret", "Service", "ServiceAccount", "StatefulSet",
     "TCPRoute", "TLSRoute", "UDPRoute", "XBackendTrafficPolicy"}

Pilot == {"EnvoyFilter", "WasmPlugin"}

pilotStableGatewayAPI ==
    {"BackendTLSPolicy", "EnvoyFilter", "GRPCRoute", "GatewayClass",
     "HTTPRoute", "KubernetesGateway", "ReferenceGrant", "WasmPlugin"}

pilotGatewayAPI ==
    pilotStableGatewayAPI
        \cup {"TCPRoute", "TLSRoute", "UDPRoute", "XBackendTrafficPolicy"}

(* The accessors of a schema.                                               *)
GroupVersionKind(row) == <<row.group, row.version, row.kind>>

GroupVersionResource(row) == <<row.group, row.version, row.plural>>

GroupVersionAliasKinds(row) ==
    {<<row.group, v, row.kind>> : v \in row.aliases \cup {row.version}}

(* SchemasBuilder.Add refuses a second schema of one gvk, MustAdd panics.   *)
Buildable(ids) ==
    \A i, j \in ids :
        GroupVersionKind(SchemaRows[i]) = GroupVersionKind(SchemaRows[j])
            => i = j

-----------------------------------------------------------------------------
(* The names: one variable of package gvk and one of package gvr for every  *)
(* identifier and every alias.                                              *)
Core(name) == <<CoreGroup, "v1", name>>
Apps(name) == <<"apps", "v1", name>>
Discovery(name) == <<"discovery.k8s.io", "v1", name>>
GwV1(name) == <<Gw, "v1", name>>
GwV1alpha2(name) == <<Gw, "v1alpha2", name>>
GwV1beta1(name) == <<Gw, "v1beta1", name>>
Inference(name) == <<Inf, "v1", name>>
IstioNetworking(name) == <<"networking.istio.io", "v1alpha3", name>>
IstioExtensions(name) == <<"extensions.istio.io", "v1alpha1", name>>
GwExperimental(name) == <<"gateway.networking.x-k8s.io", "v1alpha1", name>>

gvk == [
    ConfigMap |-> Core("ConfigMap"), Endpoints |-> Core("Endpoints"),
    Namespace |-> Core("Namespace"), Node |-> Core("Node"),
    Pod |-> Core("Pod"), Secret |-> Core("Secret"),
    Service |-> Core("Service"), ServiceAccount |-> Core("ServiceAccount"),
    DaemonSet |-> Apps("DaemonSet"), Deployment |-> Apps("Deployment"),
    StatefulSet |-> Apps("StatefulSet"),
    EndpointSlice |-> Discovery("EndpointSlice"),
    BackendTLSPolicy |-> GwV1("BackendTLSPolicy"),
    GRPCRoute |-> GwV1("GRPCRoute"), GatewayClass |-> GwV1("GatewayClass"),
    HTTPRoute |-> GwV1("HTTPRoute"), KubernetesGateway |-> GwV1("Gateway"),
    GRPCRoute_v1alpha2 |-> GwV1alpha2("GRPCRoute"),
    GatewayClass_v1alpha2 |-> GwV1alpha2("GatewayClass"),
    HTTPRoute_v1alpha2 |-> GwV1alpha2("HTTPRoute"),
    KubernetesGateway_v1alpha2 |-> GwV1alpha2("Gateway"),
    ReferenceGrant_v1alpha2 |-> GwV1alpha2("ReferenceGrant"),
    TCPRoute |-> GwV1alpha2("TCPRoute"), TLSRoute |-> GwV1alpha2("TLSRoute"),
    UDPRoute |-> GwV1alpha2("UDPRoute"),
    GatewayClass_v1beta1 |-> GwV1beta1("GatewayClass"),
    HTTPRoute_v1beta1 |-> GwV1beta1("HTTPRoute"),
    KubernetesGateway_v1beta1 |-> GwV1beta1("Gateway"),
    ReferenceGrant |-> GwV1beta1("ReferenceGrant"),
    InferencePool |-> Inference("InferencePool"),
    EnvoyFilter |-> IstioNetworking("EnvoyFilter"),
    WasmPlugin |-> IstioExtensions("WasmPlugin"),
    XBackendTrafficPolicy |-> GwExperimental("XBackendTrafficPolicy")]

gvr == [
    ConfigMap |-> Core("configmaps"), Endpoints |-> Core("endpoints"),
    Namespace |-> Core("namespaces"), Node |-> Core("nodes"),
    Pod |-> Core("pods"), Secret |-> Core("secrets"),
    Service |-> Core("services"), ServiceAccount |-> Core("serviceaccounts"),
    DaemonSet |-> Apps("daemonsets"), Deployment |-> Apps("deployments"),
    StatefulSet |-> Apps("statefulsets"),
    EndpointSlice |-> Discovery("endpointslices"),
    BackendTLSPolicy |-> GwV1("backendtlspolicies"),
    GRPCRoute |-> GwV1("grpcroutes"), GatewayClass |-> GwV1("gatewayclasses"),
    HTTPRoute |-> GwV1("httproutes"), KubernetesGateway |-> GwV1("gateways"),
    GRPCRoute_v1alpha2 |-> GwV1alpha2("grpcroutes"),
    GatewayClass_v1alpha2 |-> GwV1alpha2("gatewayclasses"),
    HTTPRoute_v1alpha2 |-> GwV1alpha2("httproutes"),
    KubernetesGateway_v1alpha2 |-> GwV1alpha2("gateways"),
    ReferenceGrant_v1alpha2 |-> GwV1alpha2("referencegrants"),
    TCPRoute |-> GwV1alpha2("tcproutes"),
    TLSRoute |-> GwV1alpha2("tlsroutes"),
    UDPRoute |-> GwV1alpha2("udproutes"),
    GatewayClass_v1beta1 |-> GwV1beta1("gatewayclasses"),
    HTTPRoute_v1beta1 |-> GwV1beta1("httproutes"),
    KubernetesGateway_v1beta1 |-> GwV1beta1("gateways"),
    ReferenceGrant |-> GwV1beta1("referencegrants"),
    InferencePool |-> Inference("inferencepools"),
    EnvoyFilter |-> IstioNetworking("envoyfilters"),
    WasmPlugin |-> IstioExtensions("wasmplugins"),
    XBackendTrafficPolicy |-> GwExperimental("xbackendtrafficpolicies")]

None == <<>>   \* the zero value beside a false second result

(* ToGVR has a case for every variable of package gvk and answers with its  *)
(* namesake of package gvr.                                                 *)
(* Faulty: the case of GRPCRoute returns the resource of HTTPRoute.         *)
ToGVRSwapped(g) ==
    IF g = gvk["GRPCRoute"] THEN gvr["HTTPRoute"]
    ELSE IF \E id \in DOMAIN gvk : gvk[id] = g
         THEN gvr[CHOOSE id \in DOMAIN gvk : gvk[id] = g]
         ELSE None

ToGVR(g) ==
    IF \E id \in DOMAIN gvk : gvk[id] = g
    THEN gvr[CHOOSE id \in DOMAIN gvk : gvk[id] = g]
    ELSE None

(* The way back, to the namesake too, has no case for an alias.             *)
FromGVR(r) ==
    IF \E id \in All : gvr[id] = r
    THEN gvk[CHOOSE id \in All : gvr[id] = r]
    ELSE None

(* IsClusterScoped answers false for a resource it has no case for.         *)
IsClusterScoped(r) ==
    r \in {gvr[id] : id \in {"GatewayClass", "GatewayClass_v1alpha2",
                             "GatewayClass_v1beta1", "Namespace", "Node"}}

(* Package kind enumerates the types, two that have no schema among them.   *)
(* String answers with the constant's own name and FromString takes it.     *)
KindConsts ==
    {"Address", "BackendTLSPolicy", "ConfigMap", "DNSName", "DaemonSet",
     "Deployment", "EndpointSlice", "Endpoints", "EnvoyFilter", "GRPCRoute",
     "GatewayClass", "HTTPRoute", "InferencePool", "KubernetesGateway",
     "Namespace", "Node", "Pod", "ReferenceGrant", "Secret", "Service",
     "ServiceAccount", "StatefulSet", "TCPRoute", "TLSRoute", "UDPRoute",
     "WasmPlugin", "XBackendTrafficPolicy"}

String(k) == IF k \in KindConsts THEN k ELSE "Unknown"

FromString(s) == IF s \in KindConsts THEN s ELSE "Unknown"

(* ToKind: no case for an alias either.                                     *)
ToKind(g) ==
    IF \E id \in All : gvk[id] = g
    THEN CHOOSE id \in All : gvk[id] = g
    ELSE "Unknown"

(* kubetypes.getGvk: for the types of each Go package the identifier whose  *)
(* gvk it answers with.  Two Istio types are there from two packages.       *)
getGvk == {
    <<"gatewayv1",
      [BackendTLSPolicy |-> "BackendTLSPolicy", GRPCRoute |-> "GRPCRoute",
       GatewayClass |-> "GatewayClass", HTTPRoute |-> "HTTPRoute",
       Gateway |-> "KubernetesGateway"]>>,
    <<"corev1",
      [ConfigMap |-> "ConfigMap", Endpoints |-> "Endpoints",
       Namespace |-> "Namespace", Node |-> "Node", Pod |-> "Pod",
       Secret |-> "Secret", Service |-> "Service",
       ServiceAccount |-> "ServiceAccount"]>>,
    <<"appsv1", [DaemonSet |-> "DaemonSet", Deployment |-> "Deployment",
                 StatefulSet |-> "StatefulSet"]>>,
    <<"discoveryv1", [EndpointSlice |-> "EndpointSlice"]>>,
    <<"networkingv1alpha3", [EnvoyFilter |-> "EnvoyFilter"]>>,
    <<"clientnetworkingv1alpha3", [EnvoyFilter |-> "EnvoyFilter"]>>,
    <<"inferencev1", [InferencePool |-> "InferencePool"]>>,
    <<"gatewayv1beta1", [ReferenceGrant |-> "ReferenceGrant"]>>,
    <<"gatewayv1alpha2", [TCPRoute |-> "TCPRoute",
                          TLSRoute |-> "TLSRoute", UDPRoute |-> "UDPRoute"]>>,
    <<"extensionsv1alpha1", [WasmPlugin |-> "WasmPlugin"]>>,
    <<"clientextensionsv1alpha1", [WasmPlugin |-> "WasmPlugin"]>>,
    <<"gatewayxv1alpha1",
      [XBackendTrafficPolicy |-> "XBackendTrafficPolicy"]>>}

-----------------------------------------------------------------------------
(* The clients.  A clientset version serves one group and version           *)
(* (external); a call of it names the resource and, unless the method       *)
(* takes none, the namespace.                                               *)
Serves == [
    CoreV1 |-> <<CoreGroup, "v1">>, AppsV1 |-> <<"apps", "v1">>,
    DiscoveryV1 |-> <<"discovery.k8s.io", "v1">>, GatewayV1 |-> <<Gw, "v1">>,
    GatewayV1alpha2 |-> <<Gw, "v1alpha2">>,
    GatewayV1beta1 |-> <<Gw, "v1beta1">>, InferenceV1 |-> <<Inf, "v1">>,
    NetworkingV1alpha3 |-> <<"networking.istio.io", "v1alpha3">>,
    ExtensionsV1alpha1 |-> <<"extensions.istio.io", "v1alpha1">>,
    ExperimentalV1alpha1 |-> <<"gateway.networking.x-k8s.io", "v1alpha1">>]

Namespaced(version, plurals) ==
    [name \in DOMAIN plurals |->
        [resource |-> <<Serves[version][1], Serves[version][2],
                        plurals[name]>>,
         namespaced |-> TRUE]]

ClusterWide(version, plurals) ==
    [name \in DOMAIN plurals |->
        [resource |-> <<Serves[version][1], Serves[version][2],
                        plurals[name]>>,
         namespaced |-> FALSE]]

(* The cases of a switch over Go types, by package.                         *)
GetWriteClient == {
    <<"gatewayv1", Namespaced("GatewayV1",
      [BackendTLSPolicy |-> "backendtlspolicies",
       GRPCRoute |-> "grpcroutes", HTTPRoute |-> "httproutes",
       Gateway |-> "gateways"])>>,
    <<"corev1", Namespaced("CoreV1",
      [ConfigMap |-> "configmaps", Endpoints |-> "endpoints",
       Pod |-> "pods", Secret |-> "secrets", Service |-> "services",
       ServiceAccount |-> "serviceaccounts"])>>,
    <<"appsv1", Namespaced("AppsV1",
      [DaemonSet |-> "daemonsets", Deployment |-> "deployments",
       StatefulSet |-> "statefulsets"])>>,
    <<"discoveryv1", Namespaced("DiscoveryV1",
      [EndpointSlice |-> "endpointslices"])>>,
    <<"clientnetworkingv1alpha3", Namespaced("NetworkingV1alpha3",
      [EnvoyFilter |-> "envoyfilters"])>>,
    <<"gatewayv1", ClusterWide("GatewayV1",
      [GatewayClass |-> "gatewayclasses"])>>,
    <<"inferencev1", Namespaced("InferenceV1",
      [InferencePool |-> "inferencepools"])>>,
    <<"corev1", ClusterWide("CoreV1", [Namespace |-> "namespaces",
                                       Node |-> "nodes"])>>,
    <<"gatewayv1beta1", Namespaced("GatewayV1beta1",
      [ReferenceGrant |-> "referencegrants"])>>,
    <<"gatewayv1alpha2", Namespaced("GatewayV1alpha2",
      [TCPRoute |-> "tcproutes", TLSRoute |-> "tlsroutes",
       UDPRoute |-> "udproutes"])>>,
    <<"clientextensionsv1alpha1", Namespaced("ExtensionsV1alpha1",
      [WasmPlugin |-> "wasmplugins"])>>,
    <<"gatewayxv1alpha1", Namespaced("ExperimentalV1alpha1",
      [XBackendTrafficPolicy |-> "xbackendtrafficpolicies"])>>}

GetClient == {
    <<"gatewayv1", Namespaced("GatewayV1",
      [BackendTLSPolicy |-> "backendtlspolicies",
       GRPCRoute |-> "grpcroutes", HTTPRoute |-> "httproutes",
       Gateway |-> "gateways"])>>,
    <<"corev1", Namespaced("CoreV1",
      [ConfigMap |-> "configmaps", Endpoints |-> "endpoints",
       Pod |-> "pods", Secret |-> "secrets", Service |-> "services",
       ServiceAccount |-> "serviceaccounts"])>>,
    <<"appsv1", Namespaced("AppsV1",
      [DaemonSet |-> "daemonsets", Deployment |-> "deployments",
       StatefulSet |-> "statefulsets"])>>,
    <<"discoveryv1", Namespaced("DiscoveryV1",
      [EndpointSlice |-> "endpointslices"])>>,
    <<"clientnetworkingv1alpha3", Namespaced("NetworkingV1alpha3",
      [EnvoyFilter |-> "envoyfilters"])>>,
    <<"gatewayv1", ClusterWide("GatewayV1",
      [GatewayClass |-> "gatewayclasses"])>>,
    <<"inferencev1", Namespaced("InferenceV1",
      [InferencePool |-> "inferencepools"])>>,
    <<"corev1", ClusterWide("CoreV1", [Namespace |-> "namespaces",
                                       Node |-> "nodes"])>>,
    <<"gatewayv1beta1", Namespaced("GatewayV1beta1",
      [ReferenceGrant |-> "referencegrants"])>>,
    <<"gatewayv1alpha2", Namespaced("GatewayV1alpha2",
      [TCPRoute |-> "tcproutes", TLSRoute |-> "tlsroutes",
       UDPRoute |-> "udproutes"])>>,
    <<"clientextensionsv1alpha1", Namespaced("ExtensionsV1alpha1",
      [WasmPlugin |-> "wasmplugins"])>>,
    <<"gatewayxv1alpha1", Namespaced("ExperimentalV1alpha1",
      [XBackendTrafficPolicy |-> "xbackendtrafficpolicies"])>>}

(* gvrToObject: the Go type of the object an informer expects.              *)
gvrToObject == {
    <<"gatewayv1",
      [BackendTLSPolicy |-> "BackendTLSPolicy", GRPCRoute |-> "GRPCRoute",
       GatewayClass |-> "GatewayClass", HTTPRoute |-> "HTTPRoute",
       KubernetesGateway |-> "Gateway"]>>,
    <<"corev1",
      [ConfigMap |-> "ConfigMap", Endpoints |-> "Endpoints",
       Namespace |-> "Namespace", Node |-> "Node", Pod |-> "Pod",
       Secret |-> "Secret", Service |-> "Service",
       ServiceAccount |-> "ServiceAccount"]>>,
    <<"appsv1", [DaemonSet |-> "DaemonSet", Deployment |-> "Deployment",
                 StatefulSet |-> "StatefulSet"]>>,
    <<"discoveryv1", [EndpointSlice |-> "EndpointSlice"]>>,
    <<"clientnetworkingv1alpha3", [EnvoyFilter |-> "EnvoyFilter"]>>,
    <<"inferencev1", [InferencePool |-> "InferencePool"]>>,
    <<"gatewayv1beta1", [ReferenceGrant |-> "ReferenceGrant"]>>,
    <<"gatewayv1alpha2", [TCPRoute |-> "TCPRoute",
                          TLSRoute |-> "TLSRoute", UDPRoute |-> "UDPRoute"]>>,
    <<"clientextensionsv1alpha1", [WasmPlugin |-> "WasmPlugin"]>>,
    <<"gatewayxv1alpha1",
      [XBackendTrafficPolicy |-> "XBackendTrafficPolicy"]>>}

(* The list and watch functions of an informer: a switch over gvrs, where   *)
(* both functions of a case call one client; anything else panics.          *)
informerBtoK == {
    Namespaced("GatewayV1",
      [BackendTLSPolicy |-> "backendtlspolicies",
       GRPCRoute |-> "grpcroutes", HTTPRoute |-> "httproutes",
       KubernetesGateway |-> "gateways"]),
    Namespaced("CoreV1", [ConfigMap |-> "configmaps",
                          Endpoints |-> "endpoints"]),
    Namespaced("AppsV1", [DaemonSet |-> "daemonsets",
                          Deployment |-> "deployments"]),
    Namespaced("DiscoveryV1", [EndpointSlice |-> "endpointslices"]),
    Namespaced("NetworkingV1alpha3", [EnvoyFilter |-> "envoyfilters"]),
    ClusterWide("GatewayV1", [GatewayClass |-> "gatewayclasses"]),
    Namespaced("InferenceV1", [InferencePool |-> "inferencepools"])}

(* Faulty: the case of TLSRoute lists and watches TCPRoutes.                *)
informerNtoXSwapped == {
    ClusterWide("CoreV1", [Namespace |-> "namespaces", Node |-> "nodes"]),
    Namespaced("CoreV1",
      [Pod |-> "pods", Secret |-> "secrets", Service |-> "services",
       ServiceAccount |-> "serviceaccounts"]),
    Namespaced("GatewayV1beta1", [ReferenceGrant |-> "referencegrants"]),
    Namespaced("AppsV1", [StatefulSet |-> "statefulsets"]),
    Namespaced("GatewayV1alpha2",
      [TCPRoute |-> "tcproutes", TLSRoute |-> "tcproutes",
       UDPRoute |-> "udproutes"]),
    Namespaced("ExtensionsV1alpha1", [WasmPlugin |-> "wasmplugins"]),
    Namespaced("ExperimentalV1alpha1",
      [XBackendTrafficPolicy |-> "xbackendtrafficpolicies"])}

informerNtoX == {
    ClusterWide("CoreV1", [Namespace |-> "namespaces", Node |-> "nodes"]),
    Namespaced("CoreV1",
      [Pod |-> "pods", Secret |-> "secrets", Service |-> "services",
       ServiceAccount |-> "serviceaccounts"]),
    Namespaced("GatewayV1beta1", [ReferenceGrant |-> "referencegrants"]),
    Namespaced("AppsV1", [StatefulSet |-> "statefulsets"]),
    Namespaced("GatewayV1alpha2",
      [TCPRoute |-> "tcproutes", TLSRoute |-> "tlsroutes",
       UDPRoute |-> "udproutes"]),
    Namespaced("ExtensionsV1alpha1", [WasmPlugin |-> "wasmplugins"]),
    Namespaced("ExperimentalV1alpha1",
      [XBackendTrafficPolicy |-> "xbackendtrafficpolicies"])}

getInformerFiltered == informerBtoK \cup informerNtoX

-----------------------------------------------------------------------------
(* crdclient: the operations, each a switch over gvks.                      *)
createCalls == {
    Namespaced("GatewayV1",
      [BackendTLSPolicy |-> "backendtlspolicies",
       GRPCRoute |-> "grpcroutes", HTTPRoute |-> "httproutes",
       KubernetesGateway |-> "gateways"]),
    Namespaced("NetworkingV1alpha3", [EnvoyFilter |-> "envoyfilters"]),
    ClusterWide("GatewayV1", [GatewayClass |-> "gatewayclasses"]),
    Namespaced("InferenceV1", [InferencePool |-> "inferencepools"]),
    Namespaced("GatewayV1beta1", [ReferenceGrant |-> "referencegrants"]),
    Namespaced("GatewayV1alpha2",
      [TCPRoute |-> "tcproutes", TLSRoute |-> "tlsroutes",
       UDPRoute |-> "udproutes"]),
    Namespaced("ExtensionsV1alpha1", [WasmPlugin |-> "wasmplugins"]),
    Namespaced("ExperimentalV1alpha1",
      [XBackendTrafficPolicy |-> "xbackendtrafficpolicies"])}

updateCalls == {
    Namespaced("GatewayV1",
      [BackendTLSPolicy |-> "backendtlspolicies",
       GRPCRoute |-> "grpcroutes", HTTPRoute |-> "httproutes",
       KubernetesGateway |-> "gateways"]),
    Namespaced("NetworkingV1alpha3", [EnvoyFilter |-> "envoyfilters"]),
    ClusterWide("GatewayV1", [GatewayClass |-> "gatewayclasses"]),
    Namespaced("InferenceV1", [InferencePool |-> "inferencepools"]),
    Namespaced("GatewayV1beta1", [ReferenceGrant |-> "referencegrants"]),
    Namespaced("GatewayV1alpha2",
      [TCPRoute |-> "tcproutes", TLSRoute |-> "tlsroutes",
       UDPRoute |-> "udproutes"]),
    Namespaced("ExtensionsV1alpha1", [WasmPlugin |-> "wasmplugins"]),
    Namespaced("ExperimentalV1alpha1",
      [XBackendTrafficPolicy |-> "xbackendtrafficpolicies"])}

updateStatusCalls == {
    Namespaced("GatewayV1",
      [BackendTLSPolicy |-> "backendtlspolicies",
       GRPCRoute |-> "grpcroutes", HTTPRoute |-> "httproutes",
       KubernetesGateway |-> "gateways"]),
    Namespaced("NetworkingV1alpha3", [EnvoyFilter |-> "envoyfilters"]),
    ClusterWide("GatewayV1", [GatewayClass |-> "gatewayclasses"]),
    Namespaced("InferenceV1", [InferencePool |-> "inferencepools"]),
    Namespaced("GatewayV1alpha2",
      [TCPRoute |-> "tcproutes", TLSRoute |-> "tlsroutes",
       UDPRoute |-> "udproutes"]),
    Namespaced("ExtensionsV1alpha1", [WasmPlugin |-> "wasmplugins"]),
    Namespaced("ExperimentalV1alpha1",
      [XBackendTrafficPolicy |-> "xbackendtrafficpolicies"])}

patchCallsBtoK == {
    Namespaced("GatewayV1",
      [BackendTLSPolicy |-> "backendtlspolicies",
       GRPCRoute |-> "grpcroutes", HTTPRoute |-> "httproutes",
       KubernetesGateway |-> "gateways"]),
    Namespaced("NetworkingV1alpha3", [EnvoyFilter |-> "envoyfilters"]),
    ClusterWide("GatewayV1", [GatewayClass |-> "gatewayclasses"]),
    Namespaced("InferenceV1", [InferencePool |-> "inferencepools"])}

patchCallsRtoX == {
    Namespaced("GatewayV1beta1", [ReferenceGrant |-> "referencegrants"]),
    Namespaced("GatewayV1alpha2",
      [TCPRoute |-> "tcproutes", TLSRoute |-> "tlsroutes",
       UDPRoute |-> "udproutes"]),
    Namespaced("ExtensionsV1alpha1", [WasmPlugin |-> "wasmplugins"]),
    Namespaced("ExperimentalV1alpha1",
      [XBackendTrafficPolicy |-> "xbackendtrafficpolicies"])}

patchCalls == patchCallsBtoK \cup patchCallsRtoX

deleteCalls == {
    Namespaced("GatewayV1",
      [BackendTLSPolicy |-> "backendtlspolicies",
       GRPCRoute |-> "grpcroutes", HTTPRoute |-> "httproutes",
       KubernetesGateway |-> "gateways"]),
    Namespaced("NetworkingV1alpha3", [EnvoyFilter |-> "envoyfilters"]),
    ClusterWide("GatewayV1", [GatewayClass |-> "gatewayclasses"]),
    Namespaced("InferenceV1", [InferencePool |-> "inferencepools"]),
    Namespaced("GatewayV1beta1", [ReferenceGrant |-> "referencegrants"]),
    Namespaced("GatewayV1alpha2",
      [TCPRoute |-> "tcproutes", TLSRoute |-> "tlsroutes",
       UDPRoute |-> "udproutes"]),
    Namespaced("ExtensionsV1alpha1", [WasmPlugin |-> "wasmplugins"]),
    Namespaced("ExperimentalV1alpha1",
      [XBackendTrafficPolicy |-> "xbackendtrafficpolicies"])}

(* What the case of an identifier calls, {} when there is no case.          *)
Case(table, id) == {f[id] : f \in {g \in table : id \in DOMAIN g}}

(* The same for the Go type <<package, name>>.                              *)
GoCase(table, type) ==
    {row[2][type[2]] :
        row \in {r \in table : r[1] = type[1] /\ type[2] \in DOMAIN r[2]}}

GoType(id) ==
    {<<row[1], row[2][id]>> :
        row \in {r \in gvrToObject : id \in DOMAIN r[2]}}

(* What translationMap takes from an object: the metadata always, the spec  *)
(* (or the object itself where a type has none), the status of some.        *)
SpecAndStatus == {"spec", "status"}

translateBtoE == [
    BackendTLSPolicy |-> SpecAndStatus, ConfigMap |-> {"object"},
    DaemonSet |-> {"spec"}, Deployment |-> {"spec"},
    EndpointSlice |-> {"object"}, Endpoints |-> {"object"}]

(* Faulty: the entry of HTTPRoute leaves the status out.                    *)
translateEtoKNoStatus == [
    EnvoyFilter |-> SpecAndStatus, GRPCRoute |-> SpecAndStatus,
    GatewayClass |-> SpecAndStatus, HTTPRoute |-> {"spec"},
    InferencePool |-> SpecAndStatus, KubernetesGateway |-> SpecAndStatus]

translateEtoK == [
    EnvoyFilter |-> SpecAndStatus, GRPCRoute |-> SpecAndStatus,
    GatewayClass |-> SpecAndStatus, HTTPRoute |-> SpecAndStatus,
    InferencePool |-> SpecAndStatus, KubernetesGateway |-> SpecAndStatus]

translateNtoS == [
    Namespace |-> {"spec"}, Node |-> {"spec"}, Pod |-> {"spec"},
    ReferenceGrant |-> {"spec"}, Secret |-> {"object"},
    Service |-> SpecAndStatus, ServiceAccount |-> {"object"},
    StatefulSet |-> {"spec"}]

translateTtoX == [
    TCPRoute |-> SpecAndStatus, TLSRoute |-> SpecAndStatus,
    UDPRoute |-> SpecAndStatus, WasmPlugin |-> SpecAndStatus,
    XBackendTrafficPolicy |-> SpecAndStatus]

translationMap == Joined(Joined(translateBtoE, translateEtoK),
                         Joined(translateNtoS, translateTtoX))

-----------------------------------------------------------------------------
(* makeKubeConfigController adds InferencePool to GatewayAPI().             *)
GatewayAPI == pilotStableGatewayAPI

PilotStore == GatewayAPI \cup {"InferencePool"}

-----------------------------------------------------------------------------
(* What it means that the tables agree (TablesAgree of ConfigClient).       *)
NamesAgree(id) ==
    LET row == SchemaRows[id]
    IN  /\ GroupVersionKind(row) = gvk[id]
        /\ ToGVR(gvk[id]) = GroupVersionResource(row)
        /\ FromGVR(GroupVersionResource(row)) = gvk[id]
        /\ Cardinality(GoType(id)) = 1
        /\ \A type \in GoType(id) :
              type[2] = row.kind /\ GoCase(getGvk, type) = {id}
        /\ ToKind(gvk[id]) = id /\ FromString(String(id)) = id
        /\ FromString(row.kind) =
              IF row.kind = "Gateway" THEN "Unknown" ELSE id
        /\ \A g \in GroupVersionAliasKinds(row) :
              /\ ToGVR(g) # None /\ ToGVR(g)[3] = row.plural
              /\ IsClusterScoped(ToGVR(g)) <=> "cluster" \in row.flags

ClientsAgree(id) ==
    LET row     == SchemaRows[id]
        call    == [resource |-> gvr[id],
                    namespaced |-> "cluster" \notin row.flags]
        builtin == "builtin" \in row.flags
        status  == "status" \in row.flags
    IN  /\ Case(getInformerFiltered, id) = {call}
        /\ \A type \in GoType(id) :
              /\ GoCase(GetClient, type) = {call}
              /\ GoCase(GetWriteClient, type) = {call}
        /\ \A table \in {createCalls, updateCalls, patchCalls, deleteCalls} :
              Case(table, id) = IF builtin THEN {} ELSE {call}
        /\ Case(updateStatusCalls, id) =
              IF status /\ ~builtin THEN {call} ELSE {}
        /\ "status" \in translationMap[id] <=> status

StoreCanStart ==
    /\ Buildable(All) /\ Kube \cup Pilot = All /\ Kube \cap Pilot = {}
    /\ "InferencePool" \notin GatewayAPI /\ pilotGatewayAPI \subseteq All
    /\ \A id \in PilotStore :
          Case(getInformerFiltered, id) # {} /\ id \in DOMAIN translationMap
=============================================================================
