---------------------------- MODULE ServiceProtos ----------------------------
(***************************************************************************)
(* The protocol as the generated code of USERS and of DEVICES has it: the   *)
(* messages, what the handlers of the server decode, what the methods       *)
(* return, and the descriptions by which calls are dispatched.              *)
(***************************************************************************)
EXTENDS Wire

-----------------------------------------------------------------------------
(* users.proto *)

Token == <<Field("stringToken", "string")>>

RegisterUserResponse == <<Field("user", "User"), Field("token", "Token")>>

User ==
  <<Field("user_id", "string"), Field("username", "string"),
    Field("email", "string"), Field("password", "string"),
    Field("profile", "Profile"), Field("deleted", "bool")>>

GetAllUsersResponse == <<Field("users", "User")>>

GetByFieldRequest == <<Field("get_by_field", "string")>>

LoginRequest == <<Field("email", "string"), Field("password", "string")>>

CreateUserReuest ==
  <<Field("username", "string"), Field("email", "string"),
    Field("password", "string"), Field("profile", "Profile"),
    Field("deleted", "bool")>>

UpdateUserReuqest == <<Field("user", "User")>>

\* The fields of Profile in another order.
ProfileSwapped == <<Field("address", "string"), Field("name", "string")>>

Profile == <<Field("name", "string"), Field("address", "string")>>

GetUsersByAddressRequest == <<Field("address", "string")>>

GetAllUsersRequest == <<Field("pagination", "int32"), Field("limit", "int32")>>

Response == <<Field("message", "string")>>

-----------------------------------------------------------------------------
(* devices.proto *)

Device ==
  <<Field("id", "string"), Field("name", "string"), Field("type", "string"),
    Field("status", "string"), Field("location", "string")>>

CreateDeviceRequest == <<Field("device", "Device")>>

CreateDeviceResponse == <<Field("device", "Device")>>

UpdateDeviceRequest == <<Field("device", "Device")>>

UpdateDeviceResponse == <<Field("device", "Device")>>

GetDeviceRequest == <<Field("id", "string")>>

GetDeviceResponse == <<Field("device", "Device")>>

DeleteDeviceRequest == <<Field("id", "string")>>

DeleteDeviceResponse == <<Field("success", "bool")>>

GetAllDevicesRequest == <<Field("page", "int32"), Field("limit", "int32")>>

GetAllDevicesResponse == <<Field("devices", "Device")>>

-----------------------------------------------------------------------------
(* The types of each file, what each handler decodes, what each method      *)
(* returns.                                                                  *)

UsersTypes ==
  [Token |-> Token, RegisterUserResponse |-> RegisterUserResponse,
   User |-> User, GetAllUsersResponse |-> GetAllUsersResponse,
   GetByFieldRequest |-> GetByFieldRequest, LoginRequest |-> LoginRequest,
   CreateUserReuest |-> CreateUserReuest,
   UpdateUserReuqest |-> UpdateUserReuqest, Profile |-> Profile,
   GetUsersByAddressRequest |-> GetUsersByAddressRequest,
   GetAllUsersRequest |-> GetAllUsersRequest, Response |-> Response]

DevicesTypes ==
  [Device |-> Device, CreateDeviceRequest |-> CreateDeviceRequest,
   CreateDeviceResponse |-> CreateDeviceResponse,
   UpdateDeviceRequest |-> UpdateDeviceRequest,
   UpdateDeviceResponse |-> UpdateDeviceResponse,
   GetDeviceRequest |-> GetDeviceRequest,
   GetDeviceResponse |-> GetDeviceResponse,
   DeleteDeviceRequest |-> DeleteDeviceRequest,
   DeleteDeviceResponse |-> DeleteDeviceResponse,
   GetAllDevicesRequest |-> GetAllDevicesRequest,
   GetAllDevicesResponse |-> GetAllDevicesResponse]

UsersServiceHandlers ==
  [RegisterUser |-> "CreateUserReuest",
   LoginUser |-> "LoginRequest",
   GetById |-> "GetByFieldRequest",
   GetByUsername |-> "GetByFieldRequest",
   GetByEmail |-> "GetByFieldRequest",
   UpdateUser |-> "UpdateUserReuqest",
   GetAllUsers |-> "GetAllUsersRequest",
   DeleteUserById |-> "GetByFieldRequest",
   GetUsersByAddress |-> "GetUsersByAddressRequest"]

DeviceServiceHandlers ==
  [CreateDevice |-> "CreateDeviceRequest",
   UpdateDevice |-> "UpdateDeviceRequest",
   GetDevice |-> "GetDeviceRequest",
   DeleteDevice |-> "DeleteDeviceRequest",
   GetAllDevices |-> "GetAllDevicesRequest"]

UsersServiceServer ==
  [RegisterUser |-> "Response",
   LoginUser |-> "RegisterUserResponse",
   GetById |-> "User",
   GetByUsername |-> "User",
   GetByEmail |-> "User",
   UpdateUser |-> "Response",
   GetAllUsers |-> "GetAllUsersResponse",
   DeleteUserById |-> "Response",
   GetUsersByAddress |-> "GetAllUsersResponse"]

DeviceServiceServer ==
  [CreateDevice |-> "CreateDeviceResponse",
   UpdateDevice |-> "UpdateDeviceResponse",
   GetDevice |-> "GetDeviceResponse",
   DeleteDevice |-> "DeleteDeviceResponse",
   GetAllDevices |-> "GetAllDevicesResponse"]

UsersService_ServiceDesc ==
  [m \in {<<"UsersService", h>> : h \in DOMAIN UsersServiceHandlers} |-> m[2]]

DeviceService_ServiceDesc ==
  [m \in {<<"devices.DeviceService", h>> : h \in DOMAIN DeviceServiceHandlers} |-> m[2]]

=============================================================================
